---- MODULE Spec2Model ----
(***************************************************************************)
(* A model of the cider build system: the worker's job handler             *)
(* (slave/builder.go, the workspace manager), the master's round-robin     *)
(* routing exchange (broker/exchanges/rpc/roundrobin) with the WebSocket   *)
(* endpoint in front of it, and the worker-side WebSocket transport.       *)
(*                                                                         *)
(* Each subsystem has its own variables, initial predicate and next-state  *)
(* relation; a specification of one subsystem leaves the variables of the  *)
(* others unchanged.                                                       *)
(***************************************************************************)
EXTENDS Integers, Sequences, FiniteSets, TLC

(***************************************************************************)
(* Bounds of the model.                                                    *)
(***************************************************************************)
\* Number of build requests a worker receives.
NumJobs == 2
\* Number of distinct workspace paths the requests may target.
NumWorkspaces == 2
\* The worker's configured executor parallelism (BuildSlave.numExecutors).
NumExecutors == 1

Jobs == 1..NumJobs
Workspaces == 1..NumWorkspaces
\* Channels the workspace manager may create: one per workspace in the code;
\* the range leaves room for one per job.
Chans == 1..(NumWorkspaces + NumJobs)

\* "No channel" / "no workspace" / "not resolved yet".
None == 0
NoCode == -1

(***************************************************************************)
(* WORKER: Builder.Build, acquire, WorkspaceManager.GetWorkspaceQueue      *)
(***************************************************************************)
VARIABLES
    pc,           \* job -> position of its Build goroutine
    jobWs,        \* job -> workspace path derived by EnsureWorkspaceExists
    wsQueue,      \* job -> the channel returned by GetWorkspaceQueue
    interrupted,  \* job -> request.Interrupted() is closed
    retCode,      \* job -> return code passed to request.Resolve
    queues,       \* WorkspaceManager.queues: workspace -> channel (None: absent)
    chanLen,      \* channel -> number of buffered elements
    numChans,     \* number of channels made so far
    execQueue     \* number of elements buffered in Builder.execQueue

workerVars == <<pc, jobWs, wsQueue, interrupted, retCode, queues, chanLen,
                numChans, execQueue>>

\* Capacity of a workspace channel: make(chan bool, 1).
WsQueueCapacity == 1

\* Capacity of the executor channel: make(chan bool, slave.numExecutors).
ExecQueueCapacityOff == NumExecutors + 1
ExecQueueCapacity == NumExecutors

\* A buffered channel accepts a send without blocking iff it is not full.
CanSend(len, cap) == len < cap

\* GetWorkspaceQueue(ws), under wm.mu: the channel for ws, made on first use.
\* The result is <<channel, queues', numChans'>>.
GetWorkspaceQueueFresh(w) ==
    <<numChans + 1, [queues EXCEPT ![w] = numChans + 1], numChans + 1>>
GetWorkspaceQueue(w) ==
    IF queues[w] # None
    THEN <<queues[w], queues, numChans>>
    ELSE <<numChans + 1, [queues EXCEPT ![w] = numChans + 1], numChans + 1>>

\* Where Build continues when the wait for an executor is interrupted: it
\* returns, which runs the deferred release of the workspace lock.
AfterExecInterruptLeak == "done"
AfterExecInterrupt == "rel_ws"

\* Return codes of the paths through Build that end before any lock is
\* requested: 2 decode failure, 0 noop, 3 validation failure, 4 workspace
\* setup failure.
EarlyCodes == {2, 0, 3, 4}
\* Return codes of the failures between the executor acquisition and the
\* script: 6 SrcDirExists, 7 GetVCS, 8 Pull/Clone.
FetchErrorCodes == {6, 7, 8}

WorkerInit ==
    /\ pc = [j \in Jobs |-> "idle"]
    /\ jobWs = [j \in Jobs |-> None]
    /\ wsQueue = [j \in Jobs |-> None]
    /\ interrupted = [j \in Jobs |-> FALSE]
    /\ retCode = [j \in Jobs |-> NoCode]
    /\ queues = [w \in Workspaces |-> None]
    /\ chanLen = [c \in Chans |-> 0]
    /\ numChans = 0
    /\ execQueue = 0

\* The executor loop starts the handlers one request at a time; the jobs are
\* numbered in the order in which their handlers take their first step.
NextToStart(j) ==
    /\ pc[j] = "idle"
    /\ \A k \in Jobs : k < j => pc[k] # "idle"

\* Build up to an early return: UnmarshalArgs fails, Noop, Validate fails or
\* EnsureWorkspaceExists fails.
BuildRejected(j) ==
    /\ NextToStart(j)
    /\ \E code \in EarlyCodes :
         /\ retCode' = [retCode EXCEPT ![j] = code]
         /\ pc' = [pc EXCEPT ![j] = "done"]
    /\ UNCHANGED <<jobWs, wsQueue, interrupted, queues, chanLen, numChans, execQueue>>

\* Build up to the first wait: the arguments are valid, the workspace exists,
\* GetWorkspaceQueue returns the workspace's channel.
BuildAccepted(j) ==
    /\ NextToStart(j)
    /\ \E w \in Workspaces :
         LET r == GetWorkspaceQueue(w) IN
         /\ jobWs' = [jobWs EXCEPT ![j] = w]
         /\ wsQueue' = [wsQueue EXCEPT ![j] = r[1]]
         /\ queues' = r[2]
         /\ numChans' = r[3]
    /\ pc' = [pc EXCEPT ![j] = "wait_ws"]
    /\ UNCHANGED <<interrupted, retCode, chanLen, execQueue>>

\* acquire is a loop around a select of three cases: the send to the queue,
\* the receive from request.Interrupted() and a 30 s timer.  A job at
\* "wait_*" enters the select for the first time, a job at "rewait_*" enters
\* it again after the timer case: of the cases that are ready one is taken,
\* whichever.  With none ready the goroutine parks ("park_*"); the first
\* event then decides the case it wakes up with.
EntersWorkspaceSelect == {"wait_ws", "rewait_ws"}
EntersExecutorSelect == {"wait_exec", "rewait_exec"}
WaitingWorkspace == EntersWorkspaceSelect \cup {"park_ws"}
WaitingExecutor == EntersExecutorSelect \cup {"park_exec"}

\* The select takes the send case: on entry when the queue has room, or when
\* a parked job that nothing has woken yet is handed the freed slot.
SendTaken(j, entries, parked, len, cap) ==
    /\ \/ pc[j] \in entries
       \/ pc[j] = parked /\ ~interrupted[j]
    /\ CanSend(len, cap)

\* The select takes the interrupted case: on entry when the signal has fired
\* (whatever else is ready), or when the signal wakes the parked job.
InterruptTaken(j, entries, parked) ==
    /\ pc[j] \in entries \cup {parked}
    /\ interrupted[j]

\* No case of the select is ready on entry.
NoneReady(j, entries, len, cap) ==
    /\ pc[j] \in entries
    /\ ~CanSend(len, cap)
    /\ ~interrupted[j]

\* The timer wakes the parked job.
TimerTaken(j, parked, len, cap) ==
    /\ pc[j] = parked
    /\ ~CanSend(len, cap)
    /\ ~interrupted[j]

\* acquire(wsQueue): the send case of the select.
AcquireWorkspace(j) ==
    /\ SendTaken(j, EntersWorkspaceSelect, "park_ws", chanLen[wsQueue[j]], WsQueueCapacity)
    /\ chanLen' = [chanLen EXCEPT ![wsQueue[j]] = @ + 1]
    /\ pc' = [pc EXCEPT ![j] = "wait_exec"]
    /\ UNCHANGED <<jobWs, wsQueue, interrupted, retCode, queues, numChans, execQueue>>

\* acquire(wsQueue): no case is ready, the goroutine parks.
ParkWorkspace(j) ==
    /\ NoneReady(j, EntersWorkspaceSelect, chanLen[wsQueue[j]], WsQueueCapacity)
    /\ pc' = [pc EXCEPT ![j] = "park_ws"]
    /\ UNCHANGED <<jobWs, wsQueue, interrupted, retCode, queues, chanLen, numChans, execQueue>>

\* acquire(wsQueue): the timer case; the job prints the waiting message and
\* enters the select again.
TimeoutWorkspace(j) ==
    /\ TimerTaken(j, "park_ws", chanLen[wsQueue[j]], WsQueueCapacity)
    /\ pc' = [pc EXCEPT ![j] = "rewait_ws"]
    /\ UNCHANGED <<jobWs, wsQueue, interrupted, retCode, queues, chanLen, numChans, execQueue>>

\* acquire(wsQueue): the interrupted case; Build resolves with 5 and returns.
InterruptedWaitingWorkspace(j) ==
    /\ InterruptTaken(j, EntersWorkspaceSelect, "park_ws")
    /\ retCode' = [retCode EXCEPT ![j] = 5]
    /\ pc' = [pc EXCEPT ![j] = "done"]
    /\ UNCHANGED <<jobWs, wsQueue, interrupted, queues, chanLen, numChans, execQueue>>

\* acquire(execQueue): the send case of the select.
AcquireExecutor(j) ==
    /\ SendTaken(j, EntersExecutorSelect, "park_exec", execQueue, ExecQueueCapacity)
    /\ execQueue' = execQueue + 1
    /\ pc' = [pc EXCEPT ![j] = "fetch"]
    /\ UNCHANGED <<jobWs, wsQueue, interrupted, retCode, queues, chanLen, numChans>>

\* acquire(execQueue): no case is ready, the goroutine parks.
ParkExecutor(j) ==
    /\ NoneReady(j, EntersExecutorSelect, execQueue, ExecQueueCapacity)
    /\ pc' = [pc EXCEPT ![j] = "park_exec"]
    /\ UNCHANGED <<jobWs, wsQueue, interrupted, retCode, queues, chanLen, numChans, execQueue>>

\* acquire(execQueue): the timer case.
TimeoutExecutor(j) ==
    /\ TimerTaken(j, "park_exec", execQueue, ExecQueueCapacity)
    /\ pc' = [pc EXCEPT ![j] = "rewait_exec"]
    /\ UNCHANGED <<jobWs, wsQueue, interrupted, retCode, queues, chanLen, numChans, execQueue>>

\* acquire(execQueue): the interrupted case; Build resolves with 5 and
\* returns through the deferred workspace release.
InterruptedWaitingExecutor(j) ==
    /\ InterruptTaken(j, EntersExecutorSelect, "park_exec")
    /\ retCode' = [retCode EXCEPT ![j] = 5]
    /\ pc' = [pc EXCEPT ![j] = AfterExecInterrupt]
    /\ UNCHANGED <<jobWs, wsQueue, interrupted, queues, chanLen, numChans, execQueue>>

\* SrcDirExists, GetVCS, Pull/Clone: one of them fails and Build resolves.
FetchFailed(j) ==
    /\ pc[j] = "fetch"
    /\ \E code \in FetchErrorCodes : retCode' = [retCode EXCEPT ![j] = code]
    /\ pc' = [pc EXCEPT ![j] = "rel_exec"]
    /\ UNCHANGED <<jobWs, wsQueue, interrupted, queues, chanLen, numChans, execQueue>>

\* The sources are in place; Build goes on to the script.
FetchDone(j) ==
    /\ pc[j] = "fetch"
    /\ pc' = [pc EXCEPT ![j] = "run"]
    /\ UNCHANGED <<jobWs, wsQueue, interrupted, retCode, queues, chanLen, numChans, execQueue>>

\* executil.Run returns: nil resolves with 0, an error with 1.
RunReturned(j) ==
    /\ pc[j] = "run"
    /\ \E code \in {0, 1} : retCode' = [retCode EXCEPT ![j] = code]
    /\ pc' = [pc EXCEPT ![j] = "rel_exec"]
    /\ UNCHANGED <<jobWs, wsQueue, interrupted, queues, chanLen, numChans, execQueue>>

\* The deferred <-builder.execQueue.
ReleaseExecutor(j) ==
    /\ pc[j] = "rel_exec"
    /\ execQueue > 0
    /\ execQueue' = execQueue - 1
    /\ pc' = [pc EXCEPT ![j] = "rel_ws"]
    /\ UNCHANGED <<jobWs, wsQueue, interrupted, retCode, queues, chanLen, numChans>>

\* The deferred <-wsQueue.
ReleaseWorkspace(j) ==
    /\ pc[j] = "rel_ws"
    /\ chanLen[wsQueue[j]] > 0
    /\ chanLen' = [chanLen EXCEPT ![wsQueue[j]] = @ - 1]
    /\ pc' = [pc EXCEPT ![j] = "done"]
    /\ UNCHANGED <<jobWs, wsQueue, interrupted, retCode, queues, numChans, execQueue>>

\* The transport closes the interrupted channel of a request it still knows
\* (remoteRequest.interrupt, called by Transport.loop on INTERRUPT).
RequestInterrupted(j) ==
    /\ pc[j] \notin {"idle", "done"}
    /\ retCode[j] = NoCode
    /\ ~interrupted[j]
    /\ interrupted' = [interrupted EXCEPT ![j] = TRUE]
    /\ UNCHANGED <<pc, jobWs, wsQueue, retCode, queues, chanLen, numChans, execQueue>>

(***************************************************************************)
(* MASTER: roundrobin.Balancer behind the WebSocket endpoint               *)
(***************************************************************************)
\* Largest request id the clients of the model use.
NumIds == 1
\* Longest run of requests counted between two changes of the providers.
MaxStreak == 4

\* The apps connected to the master: build clients send requests, build
\* slaves register methods and answer.
Clients == {1}
Workers == {2, 3, 4}
Apps == Clients \cup Workers
\* The request ids: the uint16 of the source narrowed to 0..NumIds.
IdCount == NumIds + 1
Ids == 0..NumIds

\* Frames are byte sequences.  A request id is a uint16 in big-endian order
\* (binary.Write / binary.Read with binary.BigEndian).
IdFrame(i) == <<i \div 256, i % 256>>
ReqId(frame) == frame[1] * 256 + frame[2]
\* Method names, one frame each ("m.1", "m.2", ...).
MethodFrame(k) == <<109, 46, 48 + k>>
Methods == {MethodFrame(1), MethodFrame(2)}

FrameEmpty == <<>>
FrameHeader == "CDR#RPC@01"
MessageTypeRequest == 2
MessageTypeInterrupt == 3
MessageTypeReply == 6

\* Frame k of a message, counted from 0 as in the source.
Frame(msg, k) == msg[k + 1]

VARIABLES
    apps,            \* Balancer.apps: name -> appRecord
    providers,       \* Balancer.providers: method -> providersRecord
    appsByEndpoint,  \* Balancer.appsByEndpoint[endpoint]: set of names
    out,             \* what the last operation returned and wrote to a connection
    streak           \* per method: dispatches since the providers last changed

masterVars == <<apps, providers, appsByEndpoint, out>>

\* An absent map entry.
NoApp == [registered |-> FALSE, methods |-> {},
          requestReceivers |-> [i \in Ids |-> None]]
NoProviders == [present |-> FALSE, providers |-> <<>>, lastUsed |-> 0]
NoStreak == [n |-> 0, count |-> [a \in Apps |-> 0]]

\* What an operation hands back: its name, its return value, the connection
\* it wrote to (None: nothing written) and the frames written.
Out(op, ret, to, msg) == [op |-> op, ret |-> ret, to |-> to, msg |-> msg]

MasterInit ==
    /\ apps = [a \in Apps |-> NoApp]
    /\ providers = [m \in Methods |-> NoProviders]
    /\ appsByEndpoint = {}
    /\ out = Out(<<"init">>, "", None, <<>>)
    /\ streak = [m \in Methods |-> NoStreak]

\* Balancer.registerApp: the record of appName, created if missing.
\* The result is <<apps', appsByEndpoint'>>.
RegisterApp(table, byEndpoint, a) ==
    IF table[a].registered
    THEN <<table, byEndpoint>>
    ELSE <<[table EXCEPT ![a] = [NoApp EXCEPT !.registered = TRUE]],
           byEndpoint \cup {a}>>

\* The ring without its element at index i (1-based).
RemoveAt(ring, i) == SubSeq(ring, 1, i - 1) \o SubSeq(ring, i + 1, Len(ring))

\* Index of the first occurrence of a in the ring, 0 if there is none.
IndexOf(ring, a) ==
    IF \E i \in 1..Len(ring) : ring[i] = a
    THEN CHOOSE i \in 1..Len(ring) :
            /\ ring[i] = a
            /\ \A k \in 1..(i - 1) : ring[k] # a
    ELSE 0

\* Balancer.unregMethod on a routing table <<apps, providers>>.
UnregMethodKeepsProvider(table, provs, a, m) ==
    IF ~table[a].registered
    THEN <<table, provs>>
    ELSE <<[table EXCEPT ![a].methods = @ \ {m}], provs>>
UnregMethod(table, provs, a, m) ==
    IF ~table[a].registered
    THEN <<table, provs>>
    ELSE LET t == [table EXCEPT ![a].methods = @ \ {m}]
             rec == provs[m]
             i == IndexOf(rec.providers, a)
         IN  IF ~rec.present \/ i = 0
             THEN <<t, provs>>
             ELSE IF Len(rec.providers) = 1
             THEN <<t, [provs EXCEPT ![m] = NoProviders]>>
             ELSE <<t, [provs EXCEPT ![m].providers = RemoveAt(@, i)]>>

\* The loop of unregApp over app.methods (map iteration: any order).
RECURSIVE UnregMethods(_, _, _, _)
UnregMethods(table, provs, a, ms) ==
    IF ms = {}
    THEN <<table, provs>>
    ELSE LET m == CHOOSE x \in ms : TRUE
             r == UnregMethod(table, provs, a, m)
         IN  UnregMethods(r[1], r[2], a, ms \ {m})

\* Balancer.unregApp.  The result is <<apps', providers', appsByEndpoint'>>.
UnregApp(table, provs, byEndpoint, a) ==
    IF ~table[a].registered
    THEN <<table, provs, byEndpoint>>
    ELSE LET r == UnregMethods(table, provs, a, table[a].methods)
         IN  <<[r[1] EXCEPT ![a] = NoApp], r[2], byEndpoint \ {a}>>

\* The loop of UnregisterEndpoint over the endpoint's apps.
RECURSIVE UnregApps(_, _, _, _)
UnregApps(table, provs, byEndpoint, as) ==
    IF as = {}
    THEN <<table, provs, byEndpoint>>
    ELSE LET a == CHOOSE x \in as : TRUE
             r == UnregApp(table, provs, byEndpoint, a)
         IN  UnregApps(r[1], r[2], r[3], as \ {a})

\* providersRecord.nextProvider: <<lastUsed', the provider chosen>>.
NextProviderFirst(rec) ==
    <<0, rec.providers[1]>>
NextProvider(rec) ==
    LET i == (rec.lastUsed + 1) % Len(rec.providers)
    IN  <<i, rec.providers[i + 1]>>

\* Balancer.regOutboundRequest.
RegOutboundRequest(table, sender, reqId, receiver) ==
    IF ~table[sender].registered \/ ~table[receiver].registered
    THEN table
    ELSE IF table[sender].requestReceivers[reqId] # None
    THEN table
    ELSE [table EXCEPT ![sender].requestReceivers[reqId] = receiver]

\* Balancer.unregOutboundRequest.
UnregOutboundRequest(table, sender, reqId) ==
    IF ~table[sender].registered
    THEN table
    ELSE [table EXCEPT ![sender].requestReceivers[reqId] = None]

\* Balancer.appProcessingGivenRequest.
AppProcessingGivenRequestAny(table, sender, reqId) ==
    IF \E w \in Workers : table[w].registered
    THEN CHOOSE w \in Workers : table[w].registered
    ELSE None
AppProcessingGivenRequest(table, sender, reqId) ==
    IF ~table[sender].registered
    THEN None
    ELSE table[sender].requestReceivers[reqId]

\* The REQUEST a client puts on the wire (Transport.Call), as the endpoint
\* receives it; the tags of the output streams are left empty.
RequestMsg(i, m) ==
    <<FrameEmpty, FrameHeader, <<MessageTypeRequest>>, IdFrame(i), m, <<1>>,
      FrameEmpty, FrameEmpty>>
InterruptMsg(i) ==
    <<FrameEmpty, FrameHeader, <<MessageTypeInterrupt>>, IdFrame(i)>>
\* The REPLY a worker puts on the wire (Transport.resolveRequest).
ReplyMsg(receiver, i, code) ==
    <<receiver, FrameHeader, <<MessageTypeReply>>, IdFrame(i), <<code>>, <<>>>>

\* request.rejectFunc as handleMessage builds it for a REQUEST msg.
RejectMsg(msg, code, reason) ==
    <<FrameEmpty, FrameHeader, <<MessageTypeReply>>, Frame(msg, 4), <<code>>, reason>>

\* Endpoint.DispatchRequest: the request with the sender in frame 0.
DispatchedRequest(sender, msg) == [msg EXCEPT ![1] = sender]
\* Endpoint.DispatchInterrupt.
DispatchedInterrupt(sender, msg) == [msg EXCEPT ![1] = sender]
\* Endpoint.DispatchReply: the reply with frame 0 emptied.
DispatchedReply(msg) == [msg EXCEPT ![1] = FrameEmpty]

\* The lookup of method in app.methods that RegisterMethod starts with.
HasMethodNever(table, a, m) == FALSE
HasMethod(table, a, m) == m \in table[a].methods

\* Balancer.RegisterMethod(appName, endpoint, method).
RegisterMethod(a, m) ==
    LET r == RegisterApp(apps, appsByEndpoint, a)
        table == r[1]
    IN  IF HasMethod(table, a, m)
        THEN /\ apps' = table
             /\ appsByEndpoint' = r[2]
             /\ providers' = providers
             /\ out' = Out(<<"RegisterMethod", a, m>>, "ErrMethodAlreadyRegistered", None, <<>>)
        ELSE /\ apps' = [table EXCEPT ![a].methods = @ \cup {m}]
             /\ appsByEndpoint' = r[2]
             /\ providers' =
                  IF providers[m].present
                  THEN [providers EXCEPT ![m].providers = Append(@, a)]
                  ELSE [providers EXCEPT ![m] =
                          [present |-> TRUE, providers |-> <<a>>, lastUsed |-> 0]]
             /\ out' = Out(<<"RegisterMethod", a, m>>, "nil", None, <<>>)

\* Balancer.UnregisterMethod(appName, method).
UnregisterMethod(a, m) ==
    LET r == UnregMethod(apps, providers, a, m)
    IN  /\ apps' = r[1]
        /\ providers' = r[2]
        /\ out' = Out(<<"UnregisterMethod", a, m>>, "", None, <<>>)
        /\ UNCHANGED appsByEndpoint

\* Balancer.UnregisterApp(appName).
UnregisterApp(a) ==
    LET r == UnregApp(apps, providers, appsByEndpoint, a)
    IN  /\ apps' = r[1]
        /\ providers' = r[2]
        /\ appsByEndpoint' = r[3]
        /\ out' = Out(<<"UnregisterApp", a>>, "", None, <<>>)

\* Balancer.UnregisterEndpoint(endpoint).
UnregisterEndpoint ==
    LET r == UnregApps(apps, providers, appsByEndpoint, appsByEndpoint)
    IN  /\ apps' = r[1]
        /\ providers' = r[2]
        /\ appsByEndpoint' = r[3]
        /\ out' = Out(<<"UnregisterEndpoint">>, "", None, <<>>)

\* Endpoint.handleMessage for a REQUEST from sender, then
\* Balancer.HandleRequest.  sent: whether DispatchRequest succeeds.
HandleRequest(sender, msg, sent) ==
    LET r == RegisterApp(apps, appsByEndpoint, sender)
        m == Frame(msg, 4)
        op == <<"HandleRequest", sender, msg>>
    IN  /\ appsByEndpoint' = r[2]
        /\ IF m \in Methods /\ providers[m].present
           THEN LET np == NextProvider(providers[m])
                    app == np[2]
                    reqId == ReqId(Frame(msg, 3))
                IN  /\ providers' = [providers EXCEPT ![m].lastUsed = np[1]]
                    /\ apps' = RegOutboundRequest(r[1], sender, reqId, app)
                    /\ out' = IF sent
                              THEN Out(op, app, app, DispatchedRequest(sender, msg))
                              ELSE Out(op, app, sender,
                                       RejectMsg(msg, 255, "Failed to dispatch request"))
           ELSE /\ providers' = providers
                /\ apps' = r[1]
                /\ out' = Out(op, None, sender, RejectMsg(msg, 254, "No method available"))

\* Endpoint.handleMessage for an INTERRUPT from sender, then
\* Balancer.HandleInterrupt.
HandleInterrupt(sender, msg) ==
    LET app == AppProcessingGivenRequest(apps, sender, ReqId(Frame(msg, 3)))
        op == <<"HandleInterrupt", sender, msg>>
    IN  /\ out' = IF app # None
                  THEN Out(op, app, app, DispatchedInterrupt(sender, msg))
                  ELSE Out(op, None, None, <<>>)
        /\ UNCHANGED <<apps, providers, appsByEndpoint>>

\* Endpoint.handleMessage for a REPLY from a worker, then Balancer.HandleReply.
HandleReply(from, msg) ==
    LET receiver == Frame(msg, 0)
        op == <<"HandleReply", from, msg>>
    IN  /\ IF apps[receiver].registered
           THEN /\ apps' = UnregOutboundRequest(apps, receiver, ReqId(Frame(msg, 3)))
                /\ out' = Out(op, receiver, receiver, DispatchedReply(msg))
           ELSE /\ apps' = apps
                /\ out' = Out(op, None, None, <<>>)
        /\ UNCHANGED <<providers, appsByEndpoint>>

\* The run of dispatches of method m goes on with one more to app.
StreakCounts(m, app) ==
    [streak EXCEPT ![m].n = @ + 1, ![m].count[app] = @ + 1]

\* The messages the apps of the model send.
Codes == {0, 5}

\* The routing checks run two workers over both methods; the round-robin
\* checks run all three workers over one method.
RoutingWorkers == {2, 3}
RoundRobinMethods == {MethodFrame(1)}

(***************************************************************************)
(* INTERRUPT PATH: a client's dispatcher, the master, the workers'         *)
(* transports.  A message is delivered in the step that sends it: the      *)
(* master handles the messages of a connection one at a time and in order, *)
(* so this is one of the schedules the code allows.                        *)
(***************************************************************************)
\* Number of RemoteCalls the client creates.
MaxCalls == 3
CallIds == 1..MaxCalls
\* The client whose calls are followed.
Caller == CHOOSE s \in Clients : TRUE

VARIABLES
    calls,             \* the client's RemoteCalls: state, id, interruptedFlag
    next,              \* idPool.next of the client's dispatcher
    incomingRequests,  \* Transport.incomingRequests of each worker: id -> call
    handles,           \* the remoteRequest made for each call, where it lives
    loopRunning        \* whether Transport.loop of an app is still running

interruptVars == <<calls, next, incomingRequests, handles, loopRunning>>

NewCall == [st |-> "new", id |-> 0, interruptedFlag |-> FALSE]
NoHandle == [worker |-> None, interrupted |-> 0, resolved |-> FALSE]

InterruptInit ==
    /\ calls = [c \in CallIds |-> NewCall]
    /\ next = 0
    /\ incomingRequests = [w \in Workers |-> [i \in Ids |-> None]]
    /\ handles = [c \in CallIds |-> NoHandle]
    /\ loopRunning = [a \in Apps |-> TRUE]

\* dispatcher.calls and idPool.allocated: the ids of the registered calls.
Allocated == {calls[c].id : c \in {k \in CallIds : calls[k].st = "registered"}}

\* idPool.allocate: the first free id after next, Depleted if it panics.
Depleted == -1
RECURSIVE Probe(_, _, _)
Probe(cur, overflow, allocated) ==
    IF cur = overflow THEN Depleted
    ELSE IF cur \notin allocated THEN cur
    ELSE Probe((cur + 1) % IdCount, overflow, allocated)
Allocate(nxt, allocated) == Probe((nxt + 1) % IdCount, nxt, allocated)

\* Transport.loop, REQUEST case, with Transport.newRequest, on worker w for
\* the request of call c.  The result is
\* <<incomingRequests', handles', loopRunning'>>.
RequestDelivered(w, c, msg) ==
    LET id == ReqId(Frame(msg, 3))
    IN  IF ~loopRunning[w]
        THEN <<incomingRequests, handles, loopRunning>>
        ELSE IF Len(msg) # 8 \/ Len(Frame(msg, 3)) # 2 \/ Len(Frame(msg, 4)) = 0
                \/ incomingRequests[w][id] # None
        THEN <<incomingRequests, handles, [loopRunning EXCEPT ![w] = FALSE]>>
        ELSE <<[incomingRequests EXCEPT ![w][id] = c],
               [handles EXCEPT ![c].worker = w],
               loopRunning>>

\* remoteRequest.interrupt: how often the interrupted channel has been closed.
InterruptHandle(closed) == IF closed > 0 THEN closed ELSE closed + 1

\* Transport.loop, INTERRUPT case, on worker w.
InterruptDelivered(w, msg) ==
    LET id == ReqId(Frame(msg, 3))
        c == incomingRequests[w][id]
    IN  IF ~loopRunning[w]
        THEN <<incomingRequests, handles, loopRunning>>
        ELSE IF Len(msg) # 4 \/ Len(Frame(msg, 3)) # 2 \/ c = None
        THEN <<incomingRequests, handles, [loopRunning EXCEPT ![w] = FALSE]>>
        ELSE <<[incomingRequests EXCEPT ![w][id] = None],
               [handles EXCEPT ![c].interrupted = InterruptHandle(@)],
               loopRunning>>

\* Transport.loop, REPLY case, on the client, then the ReplyChan case of
\* dispatcher.loop.  The result is <<calls', loopRunning'>>.
ReplyDelivered(cs, msg) ==
    IF ~loopRunning[Caller]
    THEN <<cs, loopRunning>>
    ELSE IF Len(msg) # 6 \/ Len(Frame(msg, 3)) # 2 \/ Len(Frame(msg, 4)) # 1
    THEN <<cs, [loopRunning EXCEPT ![Caller] = FALSE]>>
    ELSE LET id == ReqId(Frame(msg, 3))
         IN  <<[c \in CallIds |->
                  IF cs[c].st = "registered" /\ cs[c].id = id
                  THEN [cs[c] EXCEPT !.st = "resolved"]
                  ELSE cs[c]],
               loopRunning>>

\* RemoteCall.Execute, then the executeCh case of dispatcher.loop for call c.
\* The connections stay up on this path: the master's DispatchRequest
\* succeeds.
Execute(c, m) ==
    /\ calls[c].st = "new"
    /\ \A k \in CallIds : k < c => calls[k].st # "new"
    /\ IF calls[c].interruptedFlag
       THEN /\ calls' = [calls EXCEPT ![c].st = "resolved"]
            /\ UNCHANGED <<next, incomingRequests, handles, loopRunning, masterVars>>
       ELSE LET id == Allocate(next, Allocated)
                registered == [calls EXCEPT ![c].st = "registered", ![c].id = id]
            IN  /\ id # Depleted
                /\ next' = id
                /\ HandleRequest(Caller, RequestMsg(id, m), TRUE)
                /\ IF out'.to \in Workers
                   THEN LET r == RequestDelivered(out'.to, c, out'.msg)
                        IN  /\ calls' = registered
                            /\ incomingRequests' = r[1]
                            /\ handles' = r[2]
                            /\ loopRunning' = r[3]
                   ELSE LET r == ReplyDelivered(registered, out'.msg)
                        IN  /\ calls' = r[1]
                            /\ loopRunning' = r[2]
                            /\ UNCHANGED <<incomingRequests, handles>>

\* RemoteCall.Interrupt, then dispatcher.interrupt and Transport.Interrupt.
Interrupt(c) ==
    /\ ~calls[c].interruptedFlag
    /\ calls' = [calls EXCEPT ![c].interruptedFlag = TRUE]
    /\ HandleInterrupt(Caller, InterruptMsg(calls[c].id))
    /\ LET r == IF out'.to \in Workers
                THEN InterruptDelivered(out'.to, out'.msg)
                ELSE <<incomingRequests, handles, loopRunning>>
       IN  /\ incomingRequests' = r[1]
           /\ handles' = r[2]
           /\ loopRunning' = r[3]
    /\ UNCHANGED next

\* RemoteCall.Abandon of a registered call once its interrupt is out: the
\* abandonCh case of dispatcher.loop.
Abandon(c) ==
    /\ calls[c].interruptedFlag
    /\ calls[c].st = "registered"
    /\ calls' = [calls EXCEPT ![c].st = "resolved"]
    /\ UNCHANGED <<next, incomingRequests, handles, loopRunning, masterVars>>

\* remoteRequest.Resolve by the handler of call c's request, with
\* Transport.resolveRequest, the master's relay and the client's receipt.
Resolve(c, code) ==
    LET w == handles[c].worker
        id == calls[c].id
    IN  /\ w # None
        /\ ~handles[c].resolved
        /\ incomingRequests' = [incomingRequests EXCEPT ![w][id] = None]
        /\ handles' = [handles EXCEPT ![c].resolved = TRUE]
        /\ HandleReply(w, ReplyMsg(Caller, id, code))
        /\ LET r == IF out'.to = Caller
                    THEN ReplyDelivered(calls, out'.msg)
                    ELSE <<calls, loopRunning>>
           IN  /\ calls' = r[1]
               /\ loopRunning' = r[2]
        /\ UNCHANGED next

(***************************************************************************)
(* WORKER, enslave/builder.go: the same handler, whose acquire, release and *)
(* Build also write to request.Stdout().  With stdout streaming requested,  *)
(* every such write is a STREAM-FRAME sent at once (streamWriter.Write has  *)
(* no buffer and does not look at the request's state), and Resolve sends   *)
(* the REPLY.                                                              *)
(***************************************************************************)
VARIABLES
    lastSent     \* job -> kind of the last message the worker sent for it

ReplyInit == lastSent = [j \in Jobs |-> "none"]

\* The step of job j ends with a message of the given kind for its request.
Sends(j, kind) == lastSent' = [lastSent EXCEPT ![j] = kind]

(***************************************************************************)
(* OUTPUT STREAMS: worker streamWriter -> master -> client dispatcher.       *)
(* Each connection carries its messages in order; the master handles the   *)
(* messages of the worker's connection one at a time, and the client's      *)
(* transport hands each message to the dispatcher before it reads the next. *)
(***************************************************************************)
\* Number of writes to request.Stdout() before the REPLY of one request.
MaxWrites == 2
\* The calls that ask for stdout streaming; call c uses stream tag c.
StreamCalls == {1, 2}
\* The payloads of the writes.
Payloads == {65, 66}
MessageTypeStreamFrame == 5
\* The first byte of what release writes, "+---> Releasing ...".
ReleaseBanner == 43

VARIABLES
    written,     \* call -> the payloads written to its stdout on the worker
    toMaster,    \* the worker's connection: messages the master has not read
    toClient,    \* the client's connection: messages the client has not read
    delivered,   \* call -> the payloads written to call.Stdout on the client
    streams,     \* dispatcher.streams: the registered stream tags
    handler      \* call -> position of its handler on the worker

streamVars == <<written, toMaster, toClient, delivered, streams, handler>>

StreamInit ==
    /\ written = [c \in StreamCalls |-> <<>>]
    /\ toMaster = <<>>
    /\ toClient = <<>>
    /\ delivered = [c \in StreamCalls |-> <<>>]
    /\ streams = {}
    /\ handler = [c \in StreamCalls |-> "none"]

StreamFrameMsg(tag, p) == [type |-> MessageTypeStreamFrame, tag |-> tag, payload |-> <<p>>]
StreamReplyMsg(id) == [type |-> MessageTypeReply, tag |-> id, payload |-> <<>>]

\* dispatcher.registerCall and transport.Call; the request reaches a worker
\* and its handler starts.
StreamExecute(c) ==
    /\ handler[c] = "none"
    /\ streams' = streams \cup {c}
    /\ handler' = [handler EXCEPT ![c] = "running"]
    /\ UNCHANGED <<written, toMaster, toClient, delivered>>

\* streamWriter.Write on the worker: one STREAM-FRAME per write, sent on the
\* connection before Write returns.
StreamWrite(c, p) ==
    /\ written' = [written EXCEPT ![c] = Append(@, p)]
    /\ toMaster' = Append(toMaster, StreamFrameMsg(c, p))

\* The child or the handler writes to request.Stdout() before Resolve.
WriteStdout(c, p) ==
    /\ handler[c] = "running"
    /\ Len(written[c]) < MaxWrites
    /\ StreamWrite(c, p)
    /\ UNCHANGED <<toClient, delivered, streams, handler>>

\* resolve / request.Resolve: the REPLY is sent.
StreamResolve(c) ==
    /\ handler[c] = "running"
    /\ toMaster' = Append(toMaster, StreamReplyMsg(c))
    /\ handler' = [handler EXCEPT ![c] = "replied"]
    /\ UNCHANGED <<written, toClient, delivered, streams>>

\* Build returns, slave/builder.go: the deferred functions only receive from
\* the queues.
ReturnSilently(c) ==
    /\ handler[c] = "replied"
    /\ handler' = [handler EXCEPT ![c] = "returned"]
    /\ UNCHANGED <<written, toMaster, toClient, delivered, streams>>

\* Build returns, enslave/builder.go: the deferred release writes to
\* request.Stdout().
ReturnReleasing(c) ==
    /\ handler[c] = "replied"
    /\ StreamWrite(c, ReleaseBanner)
    /\ handler' = [handler EXCEPT ![c] = "returned"]
    /\ UNCHANGED <<toClient, delivered, streams>>

\* The master reads the next message of the worker's connection:
\* HandleStreamFrame / HandleReply relay it to the client, which is
\* registered, unless the payload of a STREAM-FRAME is empty.
MasterRelays ==
    /\ toMaster # <<>>
    /\ LET msg == Head(toMaster) IN
         toClient' = IF msg.type = MessageTypeStreamFrame /\ msg.payload = <<>>
                     THEN toClient
                     ELSE Append(toClient, msg)
    /\ toMaster' = Tail(toMaster)
    /\ UNCHANGED <<written, delivered, streams, handler>>

\* dispatcher.loop on a STREAM-FRAME or a REPLY from the transport.
DispatcherReceive(msg) ==
    IF msg.type = MessageTypeStreamFrame
    THEN /\ delivered' = IF msg.tag \in streams
                         THEN [delivered EXCEPT ![msg.tag] = @ \o msg.payload]
                         ELSE delivered
         /\ streams' = streams
    ELSE /\ streams' = streams \ {msg.tag}
         /\ delivered' = delivered

ClientReceives ==
    /\ toClient # <<>>
    /\ DispatcherReceive(Head(toClient))
    /\ toClient' = Tail(toClient)
    /\ UNCHANGED <<written, toMaster, handler>>

(***************************************************************************)
(* EXCHANGE HEARTBEAT: enabledHeartbeat of the zmq3 endpoint.  Time is      *)
(* counted in ticks; the periodic task runs every HeartbeatPeriod ticks.    *)
(***************************************************************************)
\* config.Period in ticks.
HeartbeatPeriod == 2
\* config.Timeout: DefaultHeartbeatTimeout = 3 * DefaultHeartbeatPeriod.
HeartbeatTimeout == 3 * HeartbeatPeriod
\* The time the model runs for.
MaxTime == 5 * HeartbeatPeriod
BeatApps == {"a", "b"}

VARIABLES
    now,         \* time.Now()
    timestamps,  \* enabledHeartbeat.timestamps
    beating,     \* the apps registered with the exchange behind the heartbeat
    lastHeard    \* app -> when the endpoint last received something from it

beatVars == <<now, timestamps, beating, lastHeard>>

BeatInit ==
    /\ now = 0
    /\ timestamps = <<>>
    /\ beating = {}
    /\ lastHeard = [a \in BeatApps |-> 0]

\* unsafePong: beat.timestamps[appName] = time.Now().
UnsafePong(stamps, a) == [x \in DOMAIN stamps \cup {a} |-> IF x = a THEN now ELSE stamps[x]]

\* enabledHeartbeat.RegisterMethod, received from app a.
BeatRegisterMethod(a) ==
    /\ timestamps' = UnsafePong(timestamps, a)
    /\ beating' = beating \cup {a}
    /\ lastHeard' = [lastHeard EXCEPT ![a] = now]
    /\ UNCHANGED now

\* enabledHeartbeat.Pong, on a PONG received from app a.
BeatPong(a) ==
    /\ a \in beating
    /\ timestamps' = UnsafePong(timestamps, a)
    /\ lastHeard' = [lastHeard EXCEPT ![a] = now]
    /\ UNCHANGED <<now, beating>>

\* enabledHeartbeat.UnregisterApp, on the app's own request.
BeatUnregisterApp(a) ==
    /\ a \in beating
    /\ timestamps' = [x \in DOMAIN timestamps \ {a} |-> timestamps[x]]
    /\ beating' = beating \ {a}
    /\ UNCHANGED <<now, lastHeard>>

\* The function of the periodic task, run at time t: an app whose timestamp
\* is older than the timeout is unregistered from the exchange, the timestamp
\* of every other app is set to t; then every app of the table is pinged.
Sweep(stamps, t) ==
    [x \in DOMAIN stamps |-> IF t - stamps[x] > HeartbeatTimeout THEN stamps[x] ELSE t]
TimedOut(stamps, t) == {x \in DOMAIN stamps : t - stamps[x] > HeartbeatTimeout}

\* A tick of the clock; the periodic task runs on every HeartbeatPeriod-th.
BeatTick ==
    /\ now < MaxTime
    /\ now' = now + 1
    /\ IF now' % HeartbeatPeriod = 0 /\ DOMAIN timestamps # {}
       THEN /\ timestamps' = Sweep(timestamps, now')
            /\ beating' = beating \ TimedOut(timestamps, now')
       ELSE UNCHANGED <<timestamps, beating>>
    /\ UNCHANGED lastHeard

(***************************************************************************)
(* CONNECTION HEARTBEAT: the goroutine started by Endpoint.handleConnection *)
(* of the master's WebSocket endpoint, with endpoint.heartbeatPeriod =      *)
(* HeartbeatPeriod ticks.  The connection is accepted at time 0.  The clock *)
(* advances only when no case of the goroutine's select is ready.           *)
(***************************************************************************)
VARIABLES
    pingAt,      \* when the time.After(period) of the current select fires
    timeoutAt,   \* when timeoutCh fires; Never once it has fired
    pongCh,      \* number of elements in pongCh (capacity 1)
    connOpen,    \* the connection has not been closed
    lastPing,    \* when the last PING was sent; Never before the first
    lastReset,   \* when the last PONG was taken from pongCh; Never before
    closedAt     \* when conn.Close() was called; Never before

wsBeatVars == <<pingAt, timeoutAt, pongCh, connOpen, lastPing, lastReset, closedAt>>

Never == 0
\* timeoutCh = time.After(4 * endpoint.heartbeatPeriod), before the loop.
FirstTimeout == 4 * HeartbeatPeriod
\* timeoutCh = time.After(3 * endpoint.heartbeatPeriod), on a PONG.
TimeoutAfterPongLong == 4 * HeartbeatPeriod
TimeoutAfterPong == 3 * HeartbeatPeriod

WsBeatInit ==
    /\ pingAt = HeartbeatPeriod
    /\ timeoutAt = FirstTimeout
    /\ pongCh = 0
    /\ connOpen = TRUE
    /\ lastPing = Never
    /\ lastReset = Never
    /\ closedAt = Never

PingReady == now >= pingAt
PongReady == pongCh > 0
TimeoutReady == timeoutAt # Never /\ now >= timeoutAt

\* Time passes while the goroutine is parked in the select.
WsTick ==
    /\ connOpen
    /\ now < MaxTime
    /\ ~PingReady /\ ~PongReady /\ ~TimeoutReady
    /\ now' = now + 1
    /\ UNCHANGED wsBeatVars

\* case <-time.After(endpoint.heartbeatPeriod): the PING is sent.  Every
\* pass through the loop makes a new time.After(period).
HeartbeatPing ==
    /\ connOpen
    /\ PingReady
    /\ lastPing' = now
    /\ pingAt' = now + HeartbeatPeriod
    /\ UNCHANGED <<now, timeoutAt, pongCh, connOpen, lastReset, closedAt>>

\* case <-pongCh: the deadline is set anew.
HeartbeatPong ==
    /\ connOpen
    /\ PongReady
    /\ pongCh' = pongCh - 1
    /\ timeoutAt' = now + TimeoutAfterPong
    /\ lastReset' = now
    /\ pingAt' = now + HeartbeatPeriod
    /\ UNCHANGED <<now, connOpen, lastPing, closedAt>>

\* case <-timeoutCh: conn.Close(); the receive loop of handleConnection
\* fails and the handler returns, which ends the goroutine.
HeartbeatExpires ==
    /\ connOpen
    /\ TimeoutReady
    /\ connOpen' = FALSE
    /\ closedAt' = now
    /\ timeoutAt' = Never
    /\ UNCHANGED <<now, pingAt, pongCh, lastPing, lastReset>>

\* handleMessage, case MessageTypePong, for a PONG the peer sends once it has
\* been pinged: pongCh <- true.
PongReceived ==
    /\ connOpen
    /\ lastPing # Never
    /\ CanSend(pongCh, 1)
    /\ pongCh' = pongCh + 1
    /\ UNCHANGED <<now, pingAt, timeoutAt, connOpen, lastPing, lastReset, closedAt>>

(***************************************************************************)
(* PING: the receive loops of the two ends of a connection, Transport.loop  *)
(* of the worker or client and Endpoint.handleMessage of the master.        *)
(***************************************************************************)
\* Number of PINGs an end reads, and of messages waiting to be read by it.
MaxPings == 2
MessageTypePing == 7
MessageTypePong == 8
PingSides == {"transport", "endpoint"}
PingTypes == {MessageTypePing, MessageTypePong, MessageTypeReply}

VARIABLES
    inbound,     \* end -> types of the messages sent to it and not yet read
    pingsRead,   \* end -> number of PINGs its loop has read
    pongsSent    \* end -> number of PONGs it has sent

pingVars == <<inbound, pingsRead, pongsSent>>

PingInit ==
    /\ inbound = [sd \in PingSides |-> <<>>]
    /\ pingsRead = [sd \in PingSides |-> 0]
    /\ pongsSent = [sd \in PingSides |-> 0]

\* The peer of the end sends it a message.
PeerSends(sd, type) ==
    /\ pingsRead[sd] < MaxPings
    /\ Len(inbound[sd]) < MaxPings
    /\ inbound' = [inbound EXCEPT ![sd] = Append(@, type)]
    /\ UNCHANGED <<pingsRead, pongsSent>>

\* The switch on the message type: Transport.loop has a case for
\* MessageTypePing, which sends pongMessage; Endpoint.handleMessage has
\* none, a PING falls to its default case, which logs a warning.
SendsPong(sd, type) ==
    IF sd = "transport" THEN type = MessageTypePing ELSE FALSE

\* The end reads its next message and handles it.
Receives(sd) ==
    /\ inbound[sd] # <<>>
    /\ LET type == Head(inbound[sd]) IN
         /\ pingsRead' = [pingsRead EXCEPT ![sd] = IF type = MessageTypePing THEN @ + 1 ELSE @]
         /\ pongsSent' = [pongsSent EXCEPT ![sd] = IF SendsPong(sd, type) THEN @ + 1 ELSE @]
    /\ inbound' = [inbound EXCEPT ![sd] = Tail(@)]

(***************************************************************************)
(* CONNECTIONS: Endpoint.handleConnection, registerConnection and           *)
(* unregisterConnection of the master's WebSocket endpoint.                 *)
(***************************************************************************)
\* Number of connections the endpoint accepts.
NumConns == 3
Conns == 1..NumConns
\* The values of the identity header; "" is a missing header.
Identities == {"", "x", "y"}

VARIABLES
    connState,    \* connection -> "new", "rejected", "loop" or "closed"
    identityOf,   \* connection -> the identity of its request header
    connections,  \* Endpoint.connections: identity -> connection
    registered,   \* the connections that have registered a method
    routable      \* the identities with methods in the exchange

connVars == <<connState, identityOf, connections, registered, routable>>

ConnInit ==
    /\ connState = [c \in Conns |-> "new"]
    /\ identityOf = [c \in Conns |-> ""]
    /\ connections = [i \in Identities |-> None]
    /\ registered = {}
    /\ routable = {}

\* registerConnection: <<connections', result>>.
RegisterConnection(identity, c) ==
    IF connections[identity] # None
    THEN <<connections, FALSE>>
    ELSE <<[connections EXCEPT ![identity] = c], TRUE>>

\* What handleConnection does after registerConnection returned ok: its
\* result is not looked at, the handler goes on to the message loop.
AfterRegisterConnection(ok) == "loop"

\* handleConnection up to the message loop.
HandleConnection(c, identity) ==
    /\ connState[c] = "new"
    /\ identityOf' = [identityOf EXCEPT ![c] = identity]
    /\ IF identity = ""
       THEN /\ connState' = [connState EXCEPT ![c] = "rejected"]
            /\ connections' = connections
       ELSE LET r == RegisterConnection(identity, c) IN
            /\ connections' = r[1]
            /\ connState' = [connState EXCEPT ![c] = AfterRegisterConnection(r[2])]
    /\ UNCHANGED <<registered, routable>>

\* handleMessage, case MessageTypeRegister, in the loop of connection c: the
\* method is registered in the exchange under the connection's identity.
ConnRegisters(c) ==
    /\ connState[c] = "loop"
    /\ c \notin registered
    /\ registered' = registered \cup {c}
    /\ routable' = routable \cup {identityOf[c]}
    /\ UNCHANGED <<connState, identityOf, connections>>

\* The receive of connection c fails (the peer has gone): the handler
\* returns and the deferred unregisterConnection(identity) deletes the
\* identity's connection and unregisters the app from the exchange.
ConnEnds(c) ==
    /\ connState[c] = "loop"
    /\ connState' = [connState EXCEPT ![c] = "closed"]
    /\ connections' = [connections EXCEPT ![identityOf[c]] = None]
    /\ routable' = routable \ {identityOf[c]}
    /\ UNCHANGED <<identityOf, registered>>

(***************************************************************************)
(* CHILD PROCESSES: executil.Run under gitVCS.Clone / gitVCS.Pull and the   *)
(* build script of Builder.Build                                           *)
(***************************************************************************)
\* The commands a job runs, each through executil.Run: Clone is one git
\* command, Pull is fetch, checkout and merge; the script comes last.
PlanClone == <<"clone", "script">>
PlanPull == <<"fetch", "checkout", "merge", "script">>
Plans == {PlanClone, PlanPull}
MaxCmds == Len(PlanPull)
Cmds == 1..MaxCmds
NoPlan == <<>>

VARIABLES
    plan,        \* the commands of the job, chosen by srcDirExists
    cmdIdx,      \* the command the handler is at
    runPc,       \* position of the handler goroutine in Build / executil.Run
    child,       \* command -> state of the process started for it
    waiter,      \* command -> state of the goroutine calling cmd.Wait
    signals,        \* command -> signals delivered to its process, in order
    runErr,      \* what the last executil.Run returned
    timerFired,  \* the 5 s timer of the current Run has expired
    sigFired,    \* request.Interrupted() is closed
    buildCode    \* the code Build resolved the request with

runVars == <<plan, cmdIdx, runPc, child, waiter, signals, runErr, timerFired,
             sigFired, buildCode>>

RunInit ==
    /\ plan = NoPlan
    /\ cmdIdx = 0
    /\ runPc = "idle"
    /\ child = [k \in Cmds |-> "none"]
    /\ waiter = [k \in Cmds |-> "none"]
    /\ signals = [k \in Cmds |-> <<>>]
    /\ runErr = "none"
    /\ timerFired = FALSE
    /\ sigFired = FALSE
    /\ buildCode = NoCode

\* The goroutine started right after cmd.Start: errCh <- cmd.Wait().
WaiterNotStarted == "none"
WaiterAfterStart == "waiting"

Exited == {"exited_nil", "exited_err"}
\* What cmd.Wait returned for command k.
WaitResult(k) == IF child[k] = "exited_nil" THEN "nil" ELSE "wait"

\* Build reaches the fetch: srcDirExists chooses Pull or Clone.
BeginFetch ==
    /\ runPc = "idle"
    /\ \E p \in Plans : plan' = p
    /\ cmdIdx' = 1
    /\ runPc' = "call"
    /\ UNCHANGED <<child, waiter, signals, runErr, timerFired, sigFired, buildCode>>

\* executil.Run: cmd.Start fails.
StartFailed ==
    /\ runPc = "call"
    /\ runErr' = "start"
    /\ runPc' = "returned"
    /\ UNCHANGED <<plan, cmdIdx, child, waiter, signals, timerFired, sigFired, buildCode>>

\* executil.Run: cmd.Start succeeds and the waiting goroutine is started.
Started ==
    /\ runPc = "call"
    /\ child' = [child EXCEPT ![cmdIdx] = "running"]
    /\ waiter' = [waiter EXCEPT ![cmdIdx] = WaiterAfterStart]
    /\ timerFired' = FALSE
    /\ runPc' = "select"
    /\ UNCHANGED <<plan, cmdIdx, signals, runErr, sigFired, buildCode>>

\* The process of command k exits by itself or by a signal it was sent, and
\* cmd.Wait returns in the waiting goroutine, which puts the result in errCh.
\* A killed process exits with an error; a process that was sent nothing or
\* the termination signal may still exit with status 0.
ChildExits(k) ==
    /\ child[k] = "running"
    /\ \E st \in Exited :
         /\ (Len(signals[k]) = 2 => st = "exited_err")
         /\ child' = [child EXCEPT ![k] = st]
    /\ waiter' = [waiter EXCEPT ![k] = IF @ = "waiting" THEN "done" ELSE @]
    /\ UNCHANGED <<plan, cmdIdx, runPc, signals, runErr, timerFired, sigFired, buildCode>>

\* The first select, case err := <-errCh.
SelectExited ==
    /\ runPc = "select"
    /\ waiter[cmdIdx] = "done"
    /\ runErr' = WaitResult(cmdIdx)
    /\ runPc' = "returned"
    /\ UNCHANGED <<plan, cmdIdx, child, waiter, signals, timerFired, sigFired, buildCode>>

\* cmd.Process.Signal(sig) from position `from`: on a process that has been
\* waited on it fails without sending anything; on a running process the
\* signal is delivered, or the call fails (the platform does not support the
\* signal, the process changed its credentials) and Run returns the error.
Signal(from, sig, after) ==
    /\ runPc = from
    /\ \/ /\ child[cmdIdx] = "running"
          /\ signals' = [signals EXCEPT ![cmdIdx] = Append(@, sig)]
          /\ runPc' = after
          /\ runErr' = runErr
       \/ /\ child[cmdIdx] \in Exited \cup {"running"}
          /\ runErr' = "signal"
          /\ runPc' = "returned"
          /\ signals' = signals

\* The first select, case <-interrupted.
SelectInterrupted ==
    /\ sigFired
    /\ Signal("select", "term", "termed")
    /\ UNCHANGED <<plan, cmdIdx, child, waiter, timerFired, sigFired, buildCode>>

\* time.After(5 * time.Second) of the second select expires.
TimerExpires ==
    /\ runPc = "termed"
    /\ ~timerFired
    /\ timerFired' = TRUE
    /\ UNCHANGED <<plan, cmdIdx, runPc, child, waiter, signals, runErr, sigFired, buildCode>>

\* The second select, case err := <-errCh.
TermedExited ==
    /\ runPc = "termed"
    /\ waiter[cmdIdx] = "done"
    /\ runErr' = WaitResult(cmdIdx)
    /\ runPc' = "returned"
    /\ UNCHANGED <<plan, cmdIdx, child, waiter, signals, timerFired, sigFired, buildCode>>

\* The second select, case <-time.After(5 * time.Second).
TermedTimeout ==
    /\ timerFired
    /\ Signal("termed", "kill", "killed")
    /\ UNCHANGED <<plan, cmdIdx, child, waiter, timerFired, sigFired, buildCode>>

\* return <-errCh after the kill signal.
KilledExited ==
    /\ runPc = "killed"
    /\ waiter[cmdIdx] = "done"
    /\ runErr' = WaitResult(cmdIdx)
    /\ runPc' = "returned"
    /\ UNCHANGED <<plan, cmdIdx, child, waiter, signals, timerFired, sigFired, buildCode>>

\* Run returned nil for a git command of Pull, or for the last git command:
\* the handler goes on to the next command.
NextCommand ==
    /\ runPc = "returned"
    /\ runErr = "nil"
    /\ cmdIdx < Len(plan)
    /\ cmdIdx' = cmdIdx + 1
    /\ runPc' = "call"
    /\ UNCHANGED <<plan, child, waiter, signals, runErr, timerFired, sigFired, buildCode>>

\* Build resolves: 8 when Pull or Clone returned an error, 1 when the script
\* did, 0 when the script returned nil.
BuildResolves ==
    /\ runPc = "returned"
    /\ runErr # "nil" \/ cmdIdx = Len(plan)
    /\ buildCode' = IF runErr = "nil" THEN 0
                    ELSE IF plan[cmdIdx] = "script" THEN 1 ELSE 8
    /\ runPc' = "resolved"
    /\ UNCHANGED <<plan, cmdIdx, child, waiter, signals, runErr, timerFired, sigFired>>

\* The transport closes the interrupted channel of the request.
RunInterrupted ==
    /\ runPc \notin {"idle", "resolved"}
    /\ ~sigFired
    /\ sigFired' = TRUE
    /\ UNCHANGED <<plan, cmdIdx, runPc, child, waiter, signals, runErr, timerFired, buildCode>>

(***************************************************************************)
(* ENDPOINT SUPERVISOR: Broker.ListenAndServe / Broker.Terminate over the   *)
(* WebSocket RPC endpoint the master registers                             *)
(***************************************************************************)
\* The factories registered before ListenAndServe; the master registers
\* "websocket_rpc"; the second one is a further endpoint of the same kind.
Factories == {"websocket_rpc", "websocket_rpc_b"}

NumAllowedConsecutiveErrors == 3

VARIABLES
    taskPc,         \* position of each supervising goroutine
    errCounter,     \* errCounter of each supervising goroutine
    lasErr,         \* whether the last ep.ListenAndServe returned an error
    listener,       \* endpoint.listener of the instance ep refers to
    closeCh,        \* endpoint.closeCh is closed
    closedCh,       \* endpoint.closedCh is closed
    watcher,        \* the watcher goroutine of this iteration still selects
    stale,          \* a watcher of an earlier iteration has not run yet
    lasCalls,       \* ListenAndServe calls the broker made on the instance
    closeCalls,     \* Close calls the broker made on the instance
    dropped,        \* reports with Dropped=true sent per factory
    termCh,         \* b.termCh is closed
    termAckCh,      \* b.termAckCh is closed
    monitorCloses,  \* how many times monitorCh was closed
    sentAfterClose, \* a report was sent on monitorCh after its close
    panicked        \* a goroutine without recover panicked: the process died

brokerVars == <<taskPc, errCounter, lasErr, listener, closeCh, closedCh, watcher, stale,
                lasCalls, closeCalls, dropped, termCh, termAckCh, monitorCloses,
                sentAfterClose, panicked>>

\* Broker.ListenAndServe has run: one goroutine per factory at the top of
\* its loop, no instance yet, monitoring enabled (BuildMaster.Listen).
BrokerInit ==
    /\ taskPc = [f \in Factories |-> "loop"]
    /\ errCounter = [f \in Factories |-> 0]
    /\ lasErr = [f \in Factories |-> FALSE]
    /\ listener = [f \in Factories |-> "nil"]
    /\ closeCh = [f \in Factories |-> FALSE]
    /\ closedCh = [f \in Factories |-> FALSE]
    /\ watcher = [f \in Factories |-> FALSE]
    /\ stale = [f \in Factories |-> FALSE]
    /\ lasCalls = [f \in Factories |-> 0]
    /\ closeCalls = [f \in Factories |-> 0]
    /\ dropped = [f \in Factories |-> 0]
    /\ termCh = FALSE
    /\ termAckCh = FALSE
    /\ monitorCloses = 0
    /\ sentAfterClose = FALSE
    /\ panicked = FALSE

\* Endpoint.Close dereferences endpoint.listener, which is nil until
\* net.Listen succeeded inside ListenAndServe.
ClosePanics(f) == ~closedCh[f] /\ listener[f] = "nil"

\* Endpoint.Close on the instance ep refers to: ErrTerminated when closedCh
\* is closed; else closeCh is closed, the listener is closed and closedCh is
\* closed (a listener that is already closed returns an error first).
EndpointClose(f) ==
    /\ closeCalls' = [closeCalls EXCEPT ![f] = @ + 1]
    /\ IF closedCh[f]
       THEN UNCHANGED <<closeCh, closedCh, listener>>
       ELSE /\ closeCh' = [closeCh EXCEPT ![f] = TRUE]
            /\ listener' = [listener EXCEPT ![f] = IF @ = "nil" THEN "nil" ELSE "closed"]
            /\ closedCh' = [closedCh EXCEPT ![f] = listener[f] = "open"]

\* A report is sent on monitorCh; the master's monitoring goroutine reads
\* every report (part_007 Listen).
SendReport == sentAfterClose' = (sentAfterClose \/ monitorCloses > 0)

\* wg.Wait of the closing goroutine returns.
AllTasksDoneAny == \E f \in Factories : taskPc[f] = "exited"
AllTasksDone == \A f \in Factories : taskPc[f] = "exited"

\* Top of the loop with the threshold reached: the dropped report and return.
DropEndpoint(f) ==
    /\ ~panicked
    /\ taskPc[f] = "loop"
    /\ errCounter[f] = NumAllowedConsecutiveErrors
    /\ dropped' = [dropped EXCEPT ![f] = @ + 1]
    /\ SendReport
    /\ taskPc' = [taskPc EXCEPT ![f] = "exited"]
    /\ UNCHANGED <<errCounter, lasErr, listener, closeCh, closedCh, watcher, stale, lasCalls,
                   closeCalls, termCh, termAckCh, monitorCloses, panicked>>

\* factory() returns an error: the counter is incremented, a report is sent
\* and the loop continues.
FactoryFails(f) ==
    /\ ~panicked
    /\ taskPc[f] = "loop"
    /\ errCounter[f] # NumAllowedConsecutiveErrors
    /\ errCounter' = [errCounter EXCEPT ![f] = @ + 1]
    /\ SendReport
    /\ UNCHANGED <<taskPc, lasErr, listener, closeCh, closedCh, watcher, stale, lasCalls,
                   closeCalls, dropped, termCh, termAckCh, monitorCloses, panicked>>

\* factory() returns a new instance, ep is assigned and the watcher of this
\* iteration is started.
Instantiate(f) ==
    /\ ~panicked
    /\ taskPc[f] = "loop"
    /\ errCounter[f] # NumAllowedConsecutiveErrors
    /\ listener' = [listener EXCEPT ![f] = "nil"]
    /\ closeCh' = [closeCh EXCEPT ![f] = FALSE]
    /\ closedCh' = [closedCh EXCEPT ![f] = FALSE]
    /\ lasCalls' = [lasCalls EXCEPT ![f] = 0]
    /\ closeCalls' = [closeCalls EXCEPT ![f] = 0]
    /\ watcher' = [watcher EXCEPT ![f] = TRUE]
    /\ taskPc' = [taskPc EXCEPT ![f] = "listen"]
    /\ UNCHANGED <<errCounter, lasErr, stale, dropped, termCh, termAckCh, monitorCloses,
                   sentAfterClose, panicked>>

\* ep.ListenAndServe is entered: net.Listen fails and the call returns the
\* error, or the listener is stored and http.Serve blocks.
Listen(f, ok) ==
    /\ ~panicked
    /\ taskPc[f] = "listen"
    /\ lasCalls' = [lasCalls EXCEPT ![f] = @ + 1]
    /\ IF ok
       THEN /\ listener' = [listener EXCEPT ![f] = "open"]
            /\ taskPc' = [taskPc EXCEPT ![f] = "serving"]
            /\ UNCHANGED lasErr
       ELSE /\ lasErr' = [lasErr EXCEPT ![f] = TRUE]
            /\ taskPc' = [taskPc EXCEPT ![f] = "returned"]
            /\ UNCHANGED listener
    /\ UNCHANGED <<errCounter, closeCh, closedCh, watcher, stale, closeCalls, dropped, termCh,
                   termAckCh, monitorCloses, sentAfterClose, panicked>>

\* http.Serve returns because the listener was closed; the result is nil
\* when closeCh is closed.
ServeReturns(f) ==
    /\ ~panicked
    /\ taskPc[f] = "serving"
    /\ listener[f] = "closed"
    /\ lasErr' = [lasErr EXCEPT ![f] = ~closeCh[f]]
    /\ taskPc' = [taskPc EXCEPT ![f] = "returned"]
    /\ UNCHANGED <<errCounter, listener, closeCh, closedCh, watcher, stale, lasCalls,
                   closeCalls, dropped, termCh, termAckCh, monitorCloses, sentAfterClose,
                   panicked>>

\* http.Serve fails while the endpoint is open: the endpoint crashes.
ServeCrashes(f) ==
    /\ ~panicked
    /\ taskPc[f] = "serving"
    /\ listener[f] = "open"
    /\ lasErr' = [lasErr EXCEPT ![f] = ~closeCh[f]]
    /\ taskPc' = [taskPc EXCEPT ![f] = "returned"]
    /\ UNCHANGED <<errCounter, listener, closeCh, closedCh, watcher, stale, lasCalls,
                   closeCalls, dropped, termCh, termAckCh, monitorCloses, sentAfterClose,
                   panicked>>

\* ListenAndServe returned nil: watcherReturnCh is closed and the goroutine
\* returns.
ServedCleanly(f) ==
    /\ ~panicked
    /\ taskPc[f] = "returned"
    /\ ~lasErr[f]
    /\ stale' = [stale EXCEPT ![f] = @ \/ watcher[f]]
    /\ watcher' = [watcher EXCEPT ![f] = FALSE]
    /\ taskPc' = [taskPc EXCEPT ![f] = "exited"]
    /\ UNCHANGED <<errCounter, lasErr, listener, closeCh, closedCh, lasCalls, closeCalls,
                   dropped, termCh, termAckCh, monitorCloses, sentAfterClose, panicked>>

\* ListenAndServe returned an error: watcherReturnCh is closed, ep.Close is
\* called (a panic in it is recovered by the deferred function, which ends
\* the goroutine), the counter is incremented, and decremented again when
\* the instance served for longer than ErrorWindowSize.
Crashed(f, late) ==
    /\ ~panicked
    /\ taskPc[f] = "returned"
    /\ lasErr[f]
    /\ stale' = [stale EXCEPT ![f] = @ \/ watcher[f]]
    /\ watcher' = [watcher EXCEPT ![f] = FALSE]
    /\ EndpointClose(f)
    /\ IF ClosePanics(f)
       THEN /\ taskPc' = [taskPc EXCEPT ![f] = "exited"]
            /\ UNCHANGED errCounter
       ELSE /\ taskPc' = [taskPc EXCEPT ![f] = "loop"]
            /\ errCounter' = [errCounter EXCEPT ![f] = IF late THEN @ ELSE @ + 1]
    /\ UNCHANGED <<lasErr, lasCalls, dropped, termCh, termAckCh, monitorCloses,
                   sentAfterClose, panicked>>

\* The watcher of the current iteration takes the termCh case and closes ep.
WatcherTerminates(f) ==
    /\ ~panicked
    /\ watcher[f]
    /\ termCh
    /\ watcher' = [watcher EXCEPT ![f] = FALSE]
    /\ EndpointClose(f)
    /\ panicked' = ClosePanics(f)
    /\ UNCHANGED <<taskPc, errCounter, lasErr, stale, lasCalls, dropped, termCh, termAckCh,
                   monitorCloses, sentAfterClose>>

\* A watcher whose watcherReturnCh is closed takes the termCh case all the
\* same (both cases are ready) and closes whatever ep refers to by then.
StaleWatcherTerminates(f) ==
    /\ ~panicked
    /\ stale[f]
    /\ termCh
    /\ stale' = [stale EXCEPT ![f] = FALSE]
    /\ EndpointClose(f)
    /\ panicked' = ClosePanics(f)
    /\ UNCHANGED <<taskPc, errCounter, lasErr, watcher, lasCalls, dropped, termCh, termAckCh,
                   monitorCloses, sentAfterClose>>

\* A watcher whose watcherReturnCh is closed returns.
StaleWatcherReturns(f) ==
    /\ ~panicked
    /\ stale[f]
    /\ stale' = [stale EXCEPT ![f] = FALSE]
    /\ UNCHANGED <<taskPc, errCounter, lasErr, listener, closeCh, closedCh, watcher, lasCalls,
                   closeCalls, dropped, termCh, termAckCh, monitorCloses, sentAfterClose,
                   panicked>>

\* Broker.Terminate closes termCh (and then waits for termAckCh).
Terminate ==
    /\ ~panicked
    /\ ~termCh
    /\ termCh' = TRUE
    /\ UNCHANGED <<taskPc, errCounter, lasErr, listener, closeCh, closedCh, watcher, stale,
                   lasCalls, closeCalls, dropped, termAckCh, monitorCloses, sentAfterClose,
                   panicked>>

\* The goroutine behind wg.Wait closes monitorCh and termAckCh.
CloseMonitor ==
    /\ ~panicked
    /\ ~termAckCh
    /\ AllTasksDone
    /\ monitorCloses' = monitorCloses + 1
    /\ termAckCh' = TRUE
    /\ UNCHANGED <<taskPc, errCounter, lasErr, listener, closeCh, closedCh, watcher, stale,
                   lasCalls, closeCalls, dropped, termCh, sentAfterClose, panicked>>

(***************************************************************************)
(* BUILD ARGUMENTS: the head of Builder.Build and BuildArgs.Validate        *)
(***************************************************************************)
\* Repository strings with what url.Parse makes of them: the scheme, or a
\* parse error for the invalid escape.
Repositories == {"", "git+https://h/r", "git+ssh://h/r", "git+file:///r", "https://h/r",
                 "git+file://%zz"}
UrlParseFails(r) == r = "git+file://%zz"
UrlScheme(r) ==
    CASE r = "git+https://h/r" -> "git+https"
      [] r = "git+ssh://h/r" -> "git+ssh"
      [] r = "git+file:///r" -> "git+file"
      [] r = "https://h/r" -> "https"
      [] OTHER -> ""

\* Env elements as character sequences, and the env lists of a request.
EnvItems == {<<"A", "=", "1">>, <<"B">>, <<>>}
EnvLists == {<<>>} \cup {<<x>> : x \in EnvItems} \cup {<<x, y>> : x, y \in EnvItems}
Scripts == {"", "build.sh"}

\* What request.UnmarshalArgs yields: the decoded BuildArgs, or an error.
Undecodable == [Decoded |-> FALSE]
BuildArgs ==
    [Decoded : {TRUE}, Repository : Repositories, Script : Scripts, Env : EnvLists,
     Noop : BOOLEAN]

\* strings.Contains(kv, "=")
ContainsEquals(kv) == \E i \in 1..Len(kv) : kv[i] = "="

\* BuildArgs.Validate: the error it returns, "" for nil.
ValidateScheme(scheme) ==
    IF scheme \in {"git+https", "git+ssh", "git+file"} THEN "" ELSE "unsupported scheme"
Validate(a) ==
    IF a.Repository = "" THEN "Repository is not set"
    ELSE IF a.Script = "" THEN "Script is not set"
    ELSE IF UrlParseFails(a.Repository) THEN "parse error"
    ELSE IF ValidateScheme(UrlScheme(a.Repository)) # ""
         THEN ValidateScheme(UrlScheme(a.Repository))
    ELSE IF \E i \in 1..Len(a.Env) : ~ContainsEquals(a.Env[i]) THEN "invalid key-value pair"
    ELSE ""

VARIABLES
    buildArgs,     \* what UnmarshalArgs yields for the request
    buildPc,       \* position of the handler in Build
    resolvedWith,  \* the code the request was resolved with
    wsCreated,     \* EnsureWorkspaceExists made the workspace of the request
    wsLocked       \* the handler took the workspace lock for the request

argsVars == <<buildArgs, buildPc, resolvedWith, wsCreated, wsLocked>>

ArgsInit ==
    /\ buildArgs = Undecodable
    /\ buildPc = "idle"
    /\ resolvedWith = NoCode
    /\ wsCreated = FALSE
    /\ wsLocked = FALSE

\* A REQUEST for the build method arrives with some payload.
BuildRequested(a) ==
    /\ buildPc = "idle"
    /\ buildArgs' = a
    /\ buildPc' = "build"
    /\ UNCHANGED <<resolvedWith, wsCreated, wsLocked>>

\* Builder.Build up to EnsureWorkspaceExists: decode error 2, dry run 0,
\* validation error 3, workspace error 4, else on to the workspace lock.
BuildHead(wsOk) ==
    /\ buildPc = "build"
    /\ LET code == IF ~buildArgs.Decoded THEN 2
                   ELSE IF buildArgs.Noop THEN 0
                   ELSE IF Validate(buildArgs) # "" THEN 3
                   ELSE IF ~wsOk THEN 4
                   ELSE NoCode
       IN /\ resolvedWith' = code
          /\ buildPc' = IF code = NoCode THEN "locking" ELSE "resolved"
          /\ wsCreated' = (code = NoCode)
    /\ UNCHANGED <<buildArgs, wsLocked>>

\* acquire on the workspace queue: the lock is taken, or the request was
\* interrupted and is resolved with 5.
BuildLocks(taken) ==
    /\ buildPc = "locking"
    /\ wsLocked' = taken
    /\ buildPc' = IF taken THEN "locked" ELSE "resolved"
    /\ resolvedWith' = IF taken THEN NoCode ELSE 5
    /\ UNCHANGED <<buildArgs, wsCreated>>

\* The rest of Build resolves the request with one of its later codes.
BuildEnds(code) ==
    /\ buildPc = "locked"
    /\ resolvedWith' = code
    /\ buildPc' = "resolved"
    /\ UNCHANGED <<buildArgs, wsCreated, wsLocked>>

(***************************************************************************)
(* WORKER RPC SERVICE: executor.RegisterMethod / UnregisterMethod / loop    *)
(***************************************************************************)
MaxServed == 2
ExecMethods == {"cider.any.bash", "cider.any.make"}
Handlers == {1, 2}

VARIABLES
    methodHandlers,  \* exec.methodHandlers: method -> handler, None if absent
    exported,        \* methods the transport has registered with the broker
    lastCall,        \* the last RegisterMethod / UnregisterMethod call and its error
    served           \* per routed request: the method and the handler that got it

execVars == <<methodHandlers, exported, lastCall, served>>

ExecInit ==
    /\ methodHandlers = [m \in ExecMethods |-> None]
    /\ exported = {}
    /\ lastCall = [op |-> "none", method |-> "", err |-> ""]
    /\ served = <<>>

\* RegisterMethod deletes the method from the map whenever the command
\* came back with an error.
DeleteOnError(err) == err # ""

\* executor.RegisterMethod with the loop's registerCh case: a method that
\* is in the map yields ErrAlreadyRegistered; otherwise the handler is
\* stored and the transport registers the method with the broker, which
\* may fail. On any error the caller runs deleteMethod.
ExecRegisterMethod(m, hd, transportOk) ==
    LET err == IF methodHandlers[m] # None THEN "already registered"
               ELSE IF ~transportOk THEN "transport" ELSE ""
    IN /\ methodHandlers' =
              [methodHandlers EXCEPT ![m] = IF DeleteOnError(err) THEN None
                                            ELSE IF @ # None THEN @ ELSE hd]
       /\ exported' = IF err = "" THEN exported \cup {m} ELSE exported
       /\ lastCall' = [op |-> "register", method |-> m, err |-> err]
       /\ UNCHANGED served

\* executor.UnregisterMethod with the loop's unregisterCh case: a method
\* that is not in the map yields ErrNotRegistered; otherwise the transport
\* unregisters it and, without an error, deleteMethod removes it.
ExecUnregisterMethod(m, transportOk) ==
    LET err == IF methodHandlers[m] = None THEN "not registered"
               ELSE IF ~transportOk THEN "transport" ELSE ""
    IN /\ methodHandlers' = [methodHandlers EXCEPT ![m] = IF err = "" THEN None ELSE @]
       /\ exported' = IF err = "" THEN exported \ {m} ELSE exported
       /\ lastCall' = [op |-> "unregister", method |-> m, err |-> err]
       /\ UNCHANGED served

\* The loop's RequestChan case for a request the broker routed to a method
\* this worker exports: the handler is started, or the request is skipped
\* when the map has no handler.
ExecRequest(m) ==
    /\ m \in exported
    /\ Len(served) < MaxServed
    /\ served' = Append(served, <<m, methodHandlers[m]>>)
    /\ UNCHANGED <<methodHandlers, exported, lastCall>>

(***************************************************************************)
(* CLIENT DISPATCHER: idPool, registerCall / unregisterCall and the calls   *)
(* of one client under Execute, reply, Interrupt, Abandon                  *)
(***************************************************************************)
\* Number of RemoteCall objects the client creates.
MaxPoolCalls == 4
PoolCalls == 1..MaxPoolCalls
\* The ids of the pool: uint16 in the code, a narrower integer here, with
\* the same wrap-around of next.
PoolSize == 2
PoolIds == 0..(PoolSize - 1)

VARIABLES
    rcalls,       \* the RemoteCalls: resolvedCh closed, flags, id, tags
    dispCalls,    \* dispatcher.calls: id -> call, None if absent
    dispStreams,  \* dispatcher.streams: tag -> call, None if absent
    poolAlloc,    \* idPool.allocated
    poolNext,     \* idPool.next
    dispPanicked, \* the dispatcher's loop goroutine panicked
    closedTwice   \* the calls whose resolvedCh was closed a second time

poolVars == <<rcalls, dispCalls, dispStreams, poolAlloc, poolNext, dispPanicked, closedTwice>>

\* newRemoteCall: id is the zero value, the tags are nil (the empty set).
\* executing is where the goroutine that called Execute or GoExecute is:
\* "no" before the call, "errCh" while executeRemoteCall waits in <-errCh,
\* "returned" once executeRemoteCall has returned.
NewRemoteCall ==
    [resolved |-> FALSE, dispatchedFlag |-> FALSE, interruptedFlag |-> FALSE, id |-> 0,
     stdoutTag |-> {}, stderrTag |-> {}, awaited |-> FALSE, executing |-> "no"]

PoolInit ==
    /\ rcalls = [c \in PoolCalls |-> NewRemoteCall]
    /\ dispCalls = [i \in PoolIds |-> None]
    /\ dispStreams = [i \in PoolIds |-> None]
    /\ poolAlloc = {}
    /\ poolNext = 0
    /\ dispPanicked = FALSE
    /\ closedTwice = {}

\* idPool.allocate: <<id, next'>>, with id = Depleted where it panics.
RECURSIVE PoolProbe(_, _, _)
PoolProbe(cur, overflow, allocated) ==
    IF cur = overflow THEN Depleted
    ELSE IF cur \notin allocated THEN cur
    ELSE PoolProbe((cur + 1) % PoolSize, overflow, allocated)
PoolAllocate(nxt, allocated) == PoolProbe((nxt + 1) % PoolSize, nxt, allocated)

\* dispatcher.unregisterCall(call): the entries under call.id and under the
\* call's tags are deleted and the ids released, whoever holds them.
\* The result is <<dispCalls', dispStreams', poolAlloc'>>.
UnregisterCall(call) ==
    LET tags == call.stdoutTag \cup call.stderrTag
    IN  <<[dispCalls EXCEPT ![call.id] = None],
          [t \in PoolIds |-> IF t \in tags THEN None ELSE dispStreams[t]],
          (poolAlloc \ {call.id}) \ tags>>

\* RemoteCall.resolve closes resolvedCh; closing it again panics.
ResolvePanics(call) == call.resolved

\* call.resolve(...) is called for call c.
ClosesResolvedCh(c) ==
    /\ dispPanicked' = ResolvePanics(rcalls[c])
    /\ closedTwice' = IF ResolvePanics(rcalls[c]) THEN closedTwice \cup {c} ELSE closedTwice

\* The executeCh case of dispatcher.loop for a call that is interrupted
\* already: cmd.call.resolve(nil, ErrInterrupted) and continue; nothing is
\* sent on the command's errCh, on which executeRemoteCall is waiting.
ExecutingAfterDrop == "errCh"

\* RemoteCall.GoExecute with the executeCh case of dispatcher.loop: a call
\* that is interrupted already is resolved; otherwise registerCall assigns
\* the id and the tags of the writers that are set, and transport.Call
\* sends the request; when that fails executeRemoteCall unregisters the
\* call and resolves it with the error.
PoolExecute(c, wantOut, wantErr, sentOk) ==
    LET call == rcalls[c]
        id == PoolAllocate(poolNext, poolAlloc)
        a1 == poolAlloc \cup {id}
        outTag == IF wantOut THEN PoolAllocate(id, a1) ELSE Depleted
        n2 == IF wantOut THEN outTag ELSE id
        a2 == IF wantOut THEN a1 \cup {outTag} ELSE a1
        errTag == IF wantErr THEN PoolAllocate(n2, a2) ELSE Depleted
        n3 == IF wantErr THEN errTag ELSE n2
        a3 == IF wantErr THEN a2 \cup {errTag} ELSE a2
        depleted == id = Depleted \/ (wantOut /\ outTag = Depleted) \/ (wantErr /\ errTag = Depleted)
        reg == [call EXCEPT !.dispatchedFlag = TRUE, !.id = id,
                                   !.stdoutTag = IF wantOut THEN {outTag} ELSE {},
                                   !.stderrTag = IF wantErr THEN {errTag} ELSE {},
                                   !.awaited = sentOk, !.executing = "returned"]
    IN  /\ ~dispPanicked
        /\ ~call.dispatchedFlag
        /\ \A k \in PoolCalls : k < c => rcalls[k] # NewRemoteCall
        /\ IF call.interruptedFlag
           THEN /\ ClosesResolvedCh(c)
                /\ rcalls' = [rcalls EXCEPT ![c].dispatchedFlag = TRUE, ![c].resolved = TRUE,
                                            ![c].executing = ExecutingAfterDrop]
                /\ UNCHANGED <<dispCalls, dispStreams, poolAlloc, poolNext>>
           ELSE IF depleted
           THEN /\ dispPanicked' = TRUE
                /\ rcalls' = [rcalls EXCEPT ![c].dispatchedFlag = TRUE, ![c].executing = "errCh"]
                /\ UNCHANGED <<dispCalls, dispStreams, poolAlloc, poolNext, closedTwice>>
           ELSE IF sentOk
           THEN /\ rcalls' = [rcalls EXCEPT ![c] = reg]
                /\ dispCalls' = [dispCalls EXCEPT ![id] = c]
                /\ dispStreams' = [t \in PoolIds |->
                                     IF t \in reg.stdoutTag \cup reg.stderrTag
                                     THEN c ELSE dispStreams[t]]
                /\ poolAlloc' = a3
                /\ poolNext' = n3
                /\ UNCHANGED <<dispPanicked, closedTwice>>
           ELSE /\ rcalls' = [rcalls EXCEPT ![c] = [reg EXCEPT !.resolved = TRUE]]
                /\ dispCalls' = [dispCalls EXCEPT ![id] = None]
                /\ dispStreams' = [t \in PoolIds |->
                                     IF t \in reg.stdoutTag \cup reg.stderrTag
                                     THEN None ELSE dispStreams[t]]
                /\ poolAlloc' = poolAlloc
                /\ poolNext' = n3
                /\ ClosesResolvedCh(c)

\* The ReplyChan case of dispatcher.loop for the reply to call c's request:
\* the call reg under that id is resolved and unregistered, a reply
\* for an unknown id is dropped.
PoolReply(c) ==
    LET id == rcalls[c].id
        d == dispCalls[id]
    IN  /\ ~dispPanicked
        /\ rcalls[c].awaited
        /\ IF d = None
           THEN /\ rcalls' = [rcalls EXCEPT ![c].awaited = FALSE]
                /\ UNCHANGED <<dispCalls, dispStreams, poolAlloc, dispPanicked, closedTwice>>
           ELSE LET u == UnregisterCall(rcalls[d])
                IN  /\ ClosesResolvedCh(d)
                    /\ rcalls' = [k \in PoolCalls |->
                                    [rcalls[k] EXCEPT
                                        !.awaited = IF k = c THEN FALSE ELSE @,
                                        !.resolved = IF k = d THEN TRUE ELSE @]]
                    /\ dispCalls' = u[1]
                    /\ dispStreams' = u[2]
                    /\ poolAlloc' = u[3]
        /\ UNCHANGED poolNext

\* RemoteCall.Interrupt: the flag is set once; the INTERRUPT goes outTag and
\* the dispatcher's tables stay as they are.
PoolInterrupt(c) ==
    /\ ~dispPanicked
    /\ ~rcalls[c].interruptedFlag
    /\ rcalls' = [rcalls EXCEPT ![c].interruptedFlag = TRUE]
    /\ UNCHANGED <<dispCalls, dispStreams, poolAlloc, poolNext, dispPanicked, closedTwice>>

\* RemoteCall.Abandon with the abandonCh case of dispatcher.loop: the call
\* is unregistered by its id and tags and resolved, whatever its state.
PoolAbandon(c) ==
    LET u == UnregisterCall(rcalls[c])
    IN  /\ ~dispPanicked
        /\ ClosesResolvedCh(c)
        /\ rcalls' = [rcalls EXCEPT ![c].resolved = TRUE]
        /\ dispCalls' = u[1]
        /\ dispStreams' = u[2]
        /\ poolAlloc' = u[3]
        /\ UNCHANGED poolNext

(***************************************************************************)
(* FRAMES CODEC: marshal / unmarshal of a multi-frame message               *)
(***************************************************************************)
MaxFrames == 2
MaxFrameLen == 2
CodecBytes == {0, 255}

\* The frames of at most MaxFrameLen bytes and the messages of at most
\* MaxFrames frames.
RECURSIVE SeqsUpTo(_, _)
SeqsUpTo(S, n) ==
    IF n = 0 THEN {<<>>}
    ELSE SeqsUpTo(S, n - 1) \cup {Append(s, x) : s \in SeqsUpTo(S, n - 1), x \in S}
CodecFrames == SeqsUpTo(CodecBytes, MaxFrameLen)
CodecMessages == SeqsUpTo(CodecFrames, MaxFrames)

\* binary.Write / binary.Read of a uint32 in big-endian order.
PutUint32(n) == <<(n \div 16777216) % 256, (n \div 65536) % 256, (n \div 256) % 256, n % 256>>
Uint32At(b, pos) == ((b[pos + 1] * 256 + b[pos + 2]) * 256 + b[pos + 3]) * 256 + b[pos + 4]

\* marshal: the frame count, then for each frame its length and its bytes.
RECURSIVE MarshalFrames(_)
MarshalFrames(frames) ==
    IF frames = <<>> THEN <<>>
    ELSE PutUint32(Len(Head(frames))) \o Head(frames) \o MarshalFrames(Tail(frames))
Marshal(frames) == PutUint32(Len(frames)) \o MarshalFrames(frames)

\* The loop of unmarshal from byte offset pos with k frames to go; acc holds
\* the frames read so far.  binary.Read fails when fewer than 4 bytes are
\* left; bytes.Reader.Read fails with io.EOF when no byte is left, which
\* for a slice of length 0 depends on the library: eofOnEmpty tells whether
\* it returns io.EOF (Go 1.7 and later) or nil (before).
RECURSIVE ReadFrames(_, _, _, _, _)
ReadFrames(msg, pos, k, acc, eofOnEmpty) ==
    IF k = 0 THEN [err |-> "", frames |-> acc]
    ELSE IF Len(msg) - pos < 4 THEN [err |-> "EOF", frames |-> acc]
    ELSE LET frameLen == Uint32At(msg, pos)
             left == Len(msg) - (pos + 4)
             n == IF frameLen < left THEN frameLen ELSE left
         IN  IF left = 0 /\ (frameLen > 0 \/ eofOnEmpty)
             THEN [err |-> "EOF", frames |-> acc]
             ELSE IF n # frameLen
             THEN [err |-> "message too short", frames |-> acc]
             ELSE ReadFrames(msg, pos + 4 + n, k - 1,
                             Append(acc, SubSeq(msg, pos + 5, pos + 4 + n)), eofOnEmpty)

\* unmarshal: the error ("" for nil) and the frames decoded.
Unmarshal(msg, eofOnEmpty) ==
    IF Len(msg) < 4 THEN [err |-> "frame count missing", frames |-> <<>>]
    ELSE ReadFrames(msg, 4, Uint32At(msg, 0), <<>>, eofOnEmpty)

VARIABLES
    codecPc,     \* "idle", "sent" (marshalled), "received" (unmarshalled)
    sentFrames,  \* the message handed to marshal
    wireBytes,   \* the bytes marshal produced
    received     \* what unmarshal made of the bytes

codecVars == <<codecPc, sentFrames, wireBytes, received>>

CodecInit ==
    /\ codecPc = "idle"
    /\ sentFrames = <<>>
    /\ wireBytes = <<>>
    /\ received = [err |-> "", frames |-> <<>>]

\* One end marshals a message.
CodecSend(frames) ==
    /\ codecPc = "idle"
    /\ sentFrames' = frames
    /\ wireBytes' = Marshal(frames)
    /\ codecPc' = "sent"
    /\ UNCHANGED received

\* The other end unmarshals the bytes.
CodecReceive(eofOnEmpty) ==
    /\ codecPc = "sent"
    /\ received' = Unmarshal(wireBytes, eofOnEmpty)
    /\ codecPc' = "received"
    /\ UNCHANGED <<sentFrames, wireBytes>>

(***************************************************************************)
(* JOB STAGES: the stages of Builder.Build and the REPLY of its request     *)
(***************************************************************************)
VARIABLES
    stage,       \* job -> the stage its handler has reached
    replyCount   \* job -> number of REPLY messages sent for its request

jobVars == <<stage, replyCount>>

JobInit ==
    /\ stage = [j \in Jobs |-> "idle"]
    /\ replyCount = [j \in Jobs |-> 0]

\* remoteRequest.Resolve: Transport.resolveRequest sends one REPLY on the
\* worker's connection.
ReplyNone(j) == replyCount
Reply(j) == [replyCount EXCEPT ![j] = @ + 1]

\* The handler calls request.Resolve (directly or through resolve).
Resolves(j) ==
    /\ stage' = [stage EXCEPT ![j] = "resolved"]
    /\ replyCount' = Reply(j)

\* The handler goes on to the next stage.
Enters(j, s) ==
    /\ stage' = [stage EXCEPT ![j] = s]
    /\ UNCHANGED replyCount

\* Both locks are held; SrcDirExists and GetVCS succeeded and Pull or Clone
\* is called.
BeginPull(j) ==
    /\ pc[j] = "fetch"
    /\ stage[j] = "locks-held"
    /\ Enters(j, "fetching")
    /\ UNCHANGED workerVars

(***************************************************************************)
(* ROUTING MUTEX: Balancer.mu around the Handle* operations                 *)
(***************************************************************************)
\* The goroutines of handleConnection, one for each connection.
Readers == {1, 2, 3}

RoutingOps == {"handle_request", "handle_interrupt", "handle_progress", "handle_stream_frame", "handle_reply"}

VARIABLES
    mu,        \* the reader holding Balancer.mu, or None
    opPc,      \* reader -> position in handleMessage and the Handle* method
    opKind,    \* reader -> the operation it is in
    opTarget,  \* reader -> does the operation find the app to relay to
    rejectCode \* reader -> the code msg.Reject was called with, or None

lockVars == <<mu, opPc, opKind, opTarget, rejectCode>>

LockInit ==
    /\ mu = None
    /\ opPc = [g \in Readers |-> "receive"]
    /\ opKind = [g \in Readers |-> "none"]
    /\ opTarget = [g \in Readers |-> FALSE]
    /\ rejectCode = [g \in Readers |-> None]

\* frames.C.Receive returns a valid message and handleMessage calls the
\* exchange.
OpReceived(g, op, found) ==
    /\ opPc[g] = "receive"
    /\ opPc' = [opPc EXCEPT ![g] = "lock"]
    /\ opKind' = [opKind EXCEPT ![g] = op]
    /\ opTarget' = [opTarget EXCEPT ![g] = found]
    /\ UNCHANGED <<mu, rejectCode>>

\* b.mu.Lock()
OpLock(g) ==
    /\ opPc[g] = "lock"
    /\ mu = None
    /\ mu' = g
    /\ opPc' = [opPc EXCEPT ![g] = "locked"]
    /\ UNCHANGED <<opKind, opTarget, rejectCode>>

\* The table is read and changed; then the operation calls
\* app.endpoint.Dispatch*, msg.Reject, or goes to b.mu.Unlock().
\* Dispatch* and rejectFunc call frames.C.Send when getConnFor finds the
\* connection.
OpRoute(g, connFound) ==
    /\ opPc[g] = "locked"
    /\ opPc' = [opPc EXCEPT ![g] =
                   IF ~connFound THEN IF opKind[g] = "handle_request" /\ opTarget[g] THEN "reject" ELSE "unlock"
                   ELSE IF opTarget[g] THEN "send"
                   ELSE IF opKind[g] = "handle_request" THEN "send_reject"
                   ELSE "unlock"]
    /\ rejectCode' = [rejectCode EXCEPT ![g] =
                        IF opKind[g] = "handle_request" /\ ~opTarget[g] THEN 254 ELSE @]
    /\ UNCHANGED <<mu, opKind, opTarget>>

\* DispatchRequest failed: msg.Reject(255, ...) is called.
OpReject(g, connFound) ==
    /\ opPc[g] = "reject"
    /\ opPc' = [opPc EXCEPT ![g] = IF connFound THEN "send_reject" ELSE "unlock"]
    /\ rejectCode' = [rejectCode EXCEPT ![g] = 255]
    /\ UNCHANGED <<mu, opKind, opTarget>>

\* frames.C.Send returns: the message was written to the connection, or
\* the write failed.
OpSendReturns(g, ok) ==
    /\ opPc[g] \in {"send", "send_reject"}
    /\ opPc' = [opPc EXCEPT ![g] =
                   IF opPc[g] = "send" /\ opKind[g] = "handle_request" /\ ~ok THEN "reject" ELSE "unlock"]
    /\ UNCHANGED <<mu, opKind, opTarget, rejectCode>>

\* b.mu.Unlock() and the return to the receive loop.
OpUnlock(g) ==
    /\ opPc[g] = "unlock"
    /\ mu' = None
    /\ opPc' = [opPc EXCEPT ![g] = "receive"]
    /\ opKind' = [opKind EXCEPT ![g] = "none"]
    /\ rejectCode' = [rejectCode EXCEPT ![g] = None]
    /\ UNCHANGED opTarget

(***************************************************************************)
(* MESSAGE CHECKS: Endpoint.handleMessage of the master and Transport.loop  *)
(* of the client library                                                    *)
(***************************************************************************)
MaxMsgs == 2
MsgSides == {"endpoint", "transport"}

\* A received message, as far as the checks look at it: the number of its
\* frames, whether frame 1 equals the header, the length of the type
\* frame, the type, whether frame 0 is empty, and whether the remaining
\* frames have the lengths their type asks for.
WireMessages ==
    [nframes : {2, 3, 4, 6}, headerOk : BOOLEAN, typeLen : {1, 2},
     type : {MessageTypeInterrupt, MessageTypeReply, MessageTypePong},
     firstEmpty : BOOLEAN, restOk : {TRUE}]
    \cup [nframes : {4, 6}, headerOk : {TRUE}, typeLen : {1},
          type : {MessageTypeInterrupt, MessageTypeReply},
          firstEmpty : BOOLEAN, restOk : {FALSE}]

VARIABLES
    msgLoop,        \* side -> "receiving", or "returned" once its loop has returned
    msgConn,        \* side -> "open" or "closed": the connection the loop reads
    msgSeen,        \* side -> number of messages its loop has received
    msgLast,        \* the message handled last and the side that handled it
    msgDispatched   \* side -> types of the messages handed on

msgVars == <<msgLoop, msgConn, msgSeen, msgLast, msgDispatched>>

NoWireMessage == [side |-> "none"]

MsgInit ==
    /\ msgLoop = [sd \in MsgSides |-> "receiving"]
    /\ msgConn = [sd \in MsgSides |-> "open"]
    /\ msgSeen = [sd \in MsgSides |-> 0]
    /\ msgLast = NoWireMessage
    /\ msgDispatched = [sd \in MsgSides |-> {}]

\* The sanity checks at the beginning of both switches.
HeaderChecksPass(m) == m.nframes >= 3 /\ m.headerOk /\ m.typeLen = 1

\* The checks of the case for the message's type: the endpoint expects an
\* empty frame 0 from an INTERRUPT and a receiver in a REPLY, the transport
\* a sender in an INTERRUPT and an empty frame 0 in a REPLY.
ShapeChecksPass(sd, m) ==
    CASE m.type = MessageTypeInterrupt ->
           m.nframes = 4 /\ (m.firstEmpty <=> sd = "endpoint") /\ m.restOk
      [] m.type = MessageTypeReply ->
           m.nframes = 6 /\ (m.firstEmpty <=> sd = "transport") /\ m.restOk
      [] m.type = MessageTypePong ->
           IF sd = "endpoint" THEN m.nframes = 3 /\ m.firstEmpty ELSE FALSE
      [] OTHER -> FALSE

\* handleMessage returns to the receive loop of handleConnection after a
\* warning; Transport.loop returns.
AfterInvalidMessage(sd) == IF sd = "endpoint" THEN "receiving" ELSE "returned"

\* Transport.loop has no case for a PONG: its default case only logs.
AfterUnknownType(sd, m) ==
    IF HeaderChecksPass(m) /\ sd = "transport" /\ m.type = MessageTypePong
    THEN "receiving" ELSE AfterInvalidMessage(sd)

\* frames.C.Receive returns the message and the side handles it.
MsgReceived(sd, m) ==
    /\ msgLoop[sd] = "receiving"
    /\ msgConn[sd] = "open"
    /\ msgSeen[sd] < MaxMsgs
    /\ msgSeen' = [msgSeen EXCEPT ![sd] = @ + 1]
    /\ msgLast' = [side |-> sd, msg |-> m]
    /\ IF HeaderChecksPass(m) /\ ShapeChecksPass(sd, m)
       THEN /\ msgDispatched' = [msgDispatched EXCEPT ![sd] = @ \cup {m.type}]
            /\ UNCHANGED msgLoop
       ELSE /\ msgLoop' = [msgLoop EXCEPT ![sd] = AfterUnknownType(sd, m)]
            /\ UNCHANGED msgDispatched
    /\ UNCHANGED msgConn

\* The connection ends: frames.C.Receive fails in handleConnection (the
\* peer went away) and its loop returns, or Transport.Close closes the
\* connection of the client and waits for its loop.
MsgConnCloses(sd) ==
    /\ msgConn[sd] = "open"
    /\ msgConn' = [msgConn EXCEPT ![sd] = "closed"]
    /\ msgLoop' = [msgLoop EXCEPT ![sd] = "returned"]
    /\ UNCHANGED <<msgSeen, msgLast, msgDispatched>>

(***************************************************************************)
(* PERIODIC TASK: the goroutine of every(), its command channel, and the    *)
(* mutex of enabledHeartbeat                                                *)
(***************************************************************************)
\* The goroutines that call the wrapper: the endpoint's message loop and
\* the one that closes the endpoint.
HbCallers == {"loop", "closer"}
HbApps == {"a", "b"}
HbOps == {"RegisterMethod", "Pong", "UnregisterApp", "UnregisterEndpoint"}
\* make(chan byte, 1)
CmdChCapacity == 1

VARIABLES
    hbMu,        \* beat.mu: None, "task" or the caller that holds it
    hbTask,      \* beat.task: "nil", or "set" once every() was called
    hbStamps,    \* the keys of beat.timestamps
    hbRouted,    \* the apps registered with the wrapped exchange
    ptPc,        \* position of the task's goroutine
    ptTicker,    \* "running", or "nil" once ticker.C = nil
    cmdCh,       \* periodicTask.cmdCh
    stoppedCh,   \* periodicTask.stoppedCh is closed
    hbPc,        \* caller -> position in the wrapper's method
    hbOp,        \* caller -> the method and the app it was called with
    hbPings      \* the apps pinged by the last sweep

taskVars == <<hbMu, hbTask, hbStamps, hbRouted, ptPc, ptTicker, cmdCh, stoppedCh, hbPc, hbOp, hbPings>>

NoHbOp == [op |-> "none", app |-> "a"]

TaskInit ==
    /\ hbMu = "free"
    /\ hbTask = "nil"
    /\ hbStamps = {}
    /\ hbRouted = {}
    /\ ptPc = "none"
    /\ ptTicker = "nil"
    /\ cmdCh = <<>>
    /\ stoppedCh = FALSE
    /\ hbPc = [c \in HbCallers |-> "idle"]
    /\ hbOp = [c \in HbCallers |-> NoHbOp]
    /\ hbPings = {}

\* --- the goroutine started by every() ---

\* case <-ticker.C: task(pt) is called; its first statement is
\* beat.mu.Lock().
TickerFires ==
    /\ ptPc = "select"
    /\ ptTicker = "running"
    /\ ptPc' = "sweep_lock"
    /\ UNCHANGED <<hbMu, hbTask, hbStamps, hbRouted, ptTicker, cmdCh, stoppedCh, hbPc, hbOp, hbPings>>

\* The switch on a command: Pause stops the ticker and sets ticker.C to
\* nil, Resume makes a new ticker if ticker.C is nil, Stop ends the
\* goroutine.
TickerAfter(cmd) ==
    CASE cmd = "pause" -> "nil"
      [] cmd = "resume" -> "running"
      [] cmd = "stop" -> "nil"

\* case cmd := <-pt.cmdCh
TaskCommand ==
    /\ ptPc = "select"
    /\ cmdCh # <<>>
    /\ cmdCh' = Tail(cmdCh)
    /\ ptTicker' = TickerAfter(Head(cmdCh))
    /\ ptPc' = IF Head(cmdCh) = "stop" THEN "returned" ELSE "select"
    /\ stoppedCh' = (stoppedCh \/ Head(cmdCh) = "stop")
    /\ UNCHANGED <<hbMu, hbTask, hbStamps, hbRouted, hbPc, hbOp, hbPings>>

\* beat.mu.Lock() in the task's function.
SweepLocks ==
    /\ ptPc = "sweep_lock"
    /\ hbMu = "free"
    /\ hbMu' = "task"
    /\ ptPc' = "sweep"
    /\ UNCHANGED <<hbTask, hbStamps, hbRouted, ptTicker, cmdCh, stoppedCh, hbPc, hbOp, hbPings>>

\* The loop over the timestamps unregisters the apps that timed out from
\* the exchange and leaves the keys of the table as they are.  With an
\* empty table the function goes to t.Pause(); otherwise it pings every
\* app of the table and unlocks.
SweepRuns(timedOut) ==
    /\ ptPc = "sweep"
    /\ timedOut \subseteq hbStamps
    /\ hbRouted' = hbRouted \ timedOut
    /\ IF hbStamps = {}
       THEN /\ ptPc' = "sweep_pause"
            /\ UNCHANGED <<hbMu, hbPings>>
       ELSE /\ hbPings' = hbStamps
            /\ hbMu' = "free"
            /\ ptPc' = "select"
    /\ UNCHANGED <<hbTask, hbStamps, ptTicker, cmdCh, stoppedCh, hbPc, hbOp>>

\* --- the methods of the wrapper ---

\* A caller enters a method of the wrapper.
HbCall(c, op, a) ==
    /\ hbPc[c] = "idle"
    /\ IF c = "closer" THEN op = "UnregisterEndpoint" ELSE op # "UnregisterEndpoint"
    /\ hbPc' = [hbPc EXCEPT ![c] = "lock"]
    /\ hbOp' = [hbOp EXCEPT ![c] = [op |-> op, app |-> a]]
    /\ UNCHANGED <<hbMu, hbTask, hbStamps, hbRouted, ptPc, ptTicker, cmdCh, stoppedCh, hbPings>>

\* beat.mu.Lock()
HbLocks(c) ==
    /\ hbPc[c] = "lock"
    /\ hbMu = "free"
    /\ hbMu' = c
    /\ hbPc' = [hbPc EXCEPT ![c] = "locked"]
    /\ UNCHANGED <<hbTask, hbStamps, hbRouted, ptPc, ptTicker, cmdCh, stoppedCh, hbOp, hbPings>>

\* RegisterMethod starts the task only while beat.task is nil; it never
\* calls Resume.
TickerAfterRegister == IF hbTask = "nil" THEN "running" ELSE ptTicker

\* RegisterMethod and Pong with the mutex held.
HbStamps(c) ==
    /\ hbPc[c] = "locked"
    /\ hbOp[c].op \in {"RegisterMethod", "Pong"}
    /\ hbStamps' = hbStamps \cup {hbOp[c].app}
    /\ IF hbOp[c].op = "RegisterMethod"
       THEN /\ hbTask' = "set"
            /\ ptPc' = IF hbTask = "nil" THEN "select" ELSE ptPc
            /\ ptTicker' = TickerAfterRegister
            /\ hbRouted' = hbRouted \cup {hbOp[c].app}
       ELSE UNCHANGED <<hbTask, ptPc, ptTicker, hbRouted>>
    /\ hbMu' = "free"
    /\ hbPc' = [hbPc EXCEPT ![c] = "idle"]
    /\ UNCHANGED <<cmdCh, stoppedCh, hbOp, hbPings>>

\* UnregisterApp with the mutex held, up to beat.task.Pause(): with
\* beat.task nil the call dereferences a nil pointer.
HbUnregisterApp(c) ==
    /\ hbPc[c] = "locked"
    /\ hbOp[c].op = "UnregisterApp"
    /\ hbStamps' = hbStamps \ {hbOp[c].app}
    /\ hbPc' = [hbPc EXCEPT ![c] =
                   IF hbStamps' # {} THEN "exchange"
                   ELSE IF hbTask = "nil" THEN "panicked" ELSE "pause_send"]
    /\ UNCHANGED <<hbMu, hbTask, hbRouted, ptPc, ptTicker, cmdCh, stoppedCh, hbOp, hbPings>>

\* UnregisterEndpoint with the mutex held, up to beat.task.Stop().
HbUnregisterEndpoint(c) ==
    /\ hbPc[c] = "locked"
    /\ hbOp[c].op = "UnregisterEndpoint"
    /\ hbPc' = [hbPc EXCEPT ![c] = IF hbTask = "nil" THEN "exchange" ELSE "stop_send"]
    /\ UNCHANGED <<hbMu, hbTask, hbStamps, hbRouted, ptPc, ptTicker, cmdCh, stoppedCh, hbOp, hbPings>>

\* periodicTask.Pause and periodicTask.Stop: pt.cmdCh <- cmd goes through
\* when the channel has room.  The sender is a caller of the wrapper, or
\* the task's own goroutine, which calls t.Pause() in its function and is
\* the only receiver of the channel; it unlocks beat.mu afterwards.
PtSend(s) ==
    /\ Len(cmdCh) < CmdChCapacity
    /\ IF s = "task"
       THEN /\ ptPc = "sweep_pause"
            /\ cmdCh' = Append(cmdCh, "pause")
            /\ hbMu' = "free"
            /\ ptPc' = "select"
            /\ UNCHANGED hbPc
       ELSE /\ hbPc[s] \in {"pause_send", "stop_send"}
            /\ cmdCh' = Append(cmdCh, IF hbPc[s] = "pause_send" THEN "pause" ELSE "stop")
            /\ hbPc' = [hbPc EXCEPT ![s] = IF hbPc[s] = "pause_send" THEN "exchange" ELSE "stop_wait"]
            /\ UNCHANGED <<hbMu, ptPc>>
    /\ UNCHANGED <<hbTask, hbStamps, hbRouted, ptTicker, stoppedCh, hbOp, hbPings>>

\* <-pt.stoppedCh in Stop.
HbStopAcked(c) ==
    /\ hbPc[c] = "stop_wait"
    /\ stoppedCh
    /\ hbPc' = [hbPc EXCEPT ![c] = "exchange"]
    /\ UNCHANGED <<hbMu, hbTask, hbStamps, hbRouted, ptPc, ptTicker, cmdCh, stoppedCh, hbOp, hbPings>>

\* The call of the wrapped exchange and beat.mu.Unlock().
HbReturns(c) ==
    /\ hbPc[c] = "exchange"
    /\ hbRouted' = IF hbOp[c].op = "UnregisterApp" THEN hbRouted \ {hbOp[c].app} ELSE {}
    /\ hbMu' = "free"
    /\ hbPc' = [hbPc EXCEPT ![c] = "idle"]
    /\ UNCHANGED <<hbTask, hbStamps, ptPc, ptTicker, cmdCh, stoppedCh, hbOp, hbPings>>

(***************************************************************************)
(* ID POOL: idPool.allocate and idPool.release by themselves                *)
(***************************************************************************)
\* The number of ids: 65536 for the uint16 of the code, narrowed here; next
\* wraps round in the same way.
IdPoolSize == 4
IdPoolIds == 0..(IdPoolSize - 1)

VARIABLES
    ipNext,       \* idPool.next
    ipAllocated,  \* the keys of idPool.allocated
    ipResult,     \* what the last call of allocate returned; Depleted if it panicked
    ipFreeBefore  \* the ids that were free when allocate was called last

idPoolVars == <<ipNext, ipAllocated, ipResult, ipFreeBefore>>

NoResult == -2

IdPoolInit ==
    /\ ipNext = 0
    /\ ipAllocated = {}
    /\ ipResult = NoResult
    /\ ipFreeBefore = IdPoolIds

\* The loop of allocate: overflow := next; next++; while next # overflow,
\* take next if it is free, else next++; panic when next = overflow.
RECURSIVE IdPoolProbe(_, _, _)
IdPoolProbe(cur, overflow, allocated) ==
    IF cur = overflow THEN Depleted
    ELSE IF cur \notin allocated THEN cur
    ELSE IdPoolProbe((cur + 1) % IdPoolSize, overflow, allocated)

\* pool.allocate()
IdPoolAllocate ==
    LET id == IdPoolProbe((ipNext + 1) % IdPoolSize, ipNext, ipAllocated)
    IN  /\ ipResult # Depleted
        /\ ipResult' = id
        /\ ipFreeBefore' = IdPoolIds \ ipAllocated
        /\ IF id = Depleted
           THEN UNCHANGED <<ipNext, ipAllocated>>
           ELSE /\ ipNext' = id
                /\ ipAllocated' = ipAllocated \cup {id}

\* pool.release(id) of an allocated id.
IdPoolRelease(id) ==
    /\ ipResult # Depleted
    /\ id \in ipAllocated
    /\ ipAllocated' = ipAllocated \ {id}
    /\ UNCHANGED <<ipNext, ipResult, ipFreeBefore>>

(***************************************************************************)
(* FORWARDED REQUESTS: the requests of one client that the master handed    *)
(* to a provider, and the REPLYs that reach the client                      *)
(***************************************************************************)
FwdMethod == MethodFrame(1)

VARIABLES
    fwdTo,       \* request id -> the provider the request was dispatched to, or None
    fwdLost,     \* the ids whose provider went away before it replied
    fwdReplies   \* request id -> number of REPLYs sent to the client for it

fwdVars == <<fwdTo, fwdLost, fwdReplies>>

FwdInit ==
    /\ fwdTo = [i \in Ids |-> None]
    /\ fwdLost = {}
    /\ fwdReplies = [i \in Ids |-> 0]

\* A provider connects and registers the method.
FwdRegister(w) ==
    /\ RegisterMethod(w, FwdMethod)
    /\ UNCHANGED fwdVars

\* The client sends a REQUEST under an id it has not used: the master
\* dispatches it, or answers it itself.
FwdRequest(i, sent) ==
    /\ fwdTo[i] = None
    /\ fwdReplies[i] = 0
    /\ HandleRequest(Caller, RequestMsg(i, FwdMethod), sent)
    /\ fwdTo' = [fwdTo EXCEPT ![i] = IF out'.to \in Workers THEN out'.to ELSE None]
    /\ fwdReplies' = [fwdReplies EXCEPT ![i] = IF out'.to = Caller THEN @ + 1 ELSE @]
    /\ UNCHANGED fwdLost

\* The provider that holds the request answers it and the master relays
\* the REPLY.
FwdReply(w, i) ==
    /\ fwdTo[i] = w
    /\ i \notin fwdLost
    /\ fwdReplies[i] = 0
    /\ HandleReply(w, ReplyMsg(Caller, i, 0))
    /\ fwdReplies' = [fwdReplies EXCEPT ![i] = IF out'.to = Caller THEN @ + 1 ELSE @]
    /\ UNCHANGED <<fwdTo, fwdLost>>

\* What the master sends to the requesters of the requests a provider
\* held when it is unregistered: unregApp removes the provider's methods
\* and its record and sends nothing.
RepliesOnUnregApp(w) == {}

\* The provider's connection ends (disconnect, heartbeat timeout or
\* closing endpoint): unregisterConnection calls exchange.UnregisterApp.
\* The requests it held will not be answered by it.
FwdProviderGone(w) ==
    /\ apps[w].registered
    /\ UnregisterApp(w)
    /\ fwdLost' = fwdLost \cup {i \in Ids : fwdTo[i] = w /\ fwdReplies[i] = 0}
    /\ fwdReplies' = [i \in Ids |-> IF i \in RepliesOnUnregApp(w) THEN fwdReplies[i] + 1
                                    ELSE fwdReplies[i]]
    /\ UNCHANGED fwdTo

vars == <<workerVars, masterVars, streak, interruptVars, runVars, lastSent, streamVars, beatVars, wsBeatVars, pingVars, connVars, brokerVars, argsVars, execVars, poolVars, codecVars, jobVars, lockVars, msgVars, taskVars, idPoolVars, fwdVars>>

Init == WorkerInit /\ MasterInit /\ InterruptInit /\ RunInit /\ ReplyInit
        /\ StreamInit /\ BeatInit /\ WsBeatInit
        /\ PingInit /\ ConnInit /\ BrokerInit /\ ArgsInit /\ ExecInit /\ PoolInit /\ CodecInit /\ JobInit /\ LockInit /\ MsgInit /\ TaskInit /\ IdPoolInit /\ FwdInit

\* The other subsystems stand still while the worker's jobs step.
WorkerFrame == UNCHANGED <<masterVars, streak, interruptVars, runVars, lastSent, streamVars, beatVars, wsBeatVars, pingVars, connVars, brokerVars, argsVars, execVars, poolVars, codecVars, jobVars, lockVars, msgVars, taskVars, idPoolVars, fwdVars>>

WorkerNext ==
    \E j \in Jobs :
        \/ BuildRejected(j) /\ WorkerFrame
        \/ BuildAccepted(j) /\ WorkerFrame
        \/ AcquireWorkspace(j) /\ WorkerFrame
        \/ ParkWorkspace(j) /\ WorkerFrame
        \/ TimeoutWorkspace(j) /\ WorkerFrame
        \/ InterruptedWaitingWorkspace(j) /\ WorkerFrame
        \/ AcquireExecutor(j) /\ WorkerFrame
        \/ ParkExecutor(j) /\ WorkerFrame
        \/ TimeoutExecutor(j) /\ WorkerFrame
        \/ InterruptedWaitingExecutor(j) /\ WorkerFrame
        \/ FetchFailed(j) /\ WorkerFrame
        \/ FetchDone(j) /\ WorkerFrame
        \/ RunReturned(j) /\ WorkerFrame
        \/ ReleaseExecutor(j) /\ WorkerFrame
        \/ ReleaseWorkspace(j) /\ WorkerFrame
        \/ RequestInterrupted(j) /\ WorkerFrame

MasterFrame == UNCHANGED <<workerVars, streak, interruptVars, runVars, lastSent, streamVars, beatVars, wsBeatVars, pingVars, connVars, brokerVars, argsVars, execVars, poolVars, codecVars, jobVars, lockVars, msgVars, taskVars, idPoolVars, fwdVars>>

MasterNext ==
    \/ \E a \in RoutingWorkers, m \in Methods : RegisterMethod(a, m) /\ MasterFrame
    \/ \E a \in RoutingWorkers, m \in Methods : UnregisterMethod(a, m) /\ MasterFrame
    \/ \E a \in Clients \cup RoutingWorkers : UnregisterApp(a) /\ MasterFrame
    \/ UnregisterEndpoint /\ MasterFrame
    \/ \E s \in Clients, i \in Ids, m \in Methods, sent \in BOOLEAN :
         HandleRequest(s, RequestMsg(i, m), sent) /\ MasterFrame
    \/ \E s \in Clients, i \in Ids :
         HandleInterrupt(s, InterruptMsg(i)) /\ MasterFrame
    \/ \E w \in RoutingWorkers, s \in Clients, i \in Ids, code \in Codes :
         HandleReply(w, ReplyMsg(s, i, code)) /\ MasterFrame

RoundRobinFrame == UNCHANGED <<workerVars, interruptVars, runVars, lastSent, streamVars, beatVars, wsBeatVars, pingVars, connVars, brokerVars, argsVars, execVars, poolVars, codecVars, jobVars, lockVars, msgVars, taskVars, idPoolVars, fwdVars>>
ResetStreak == streak' = [x \in Methods |-> NoStreak]

\* The operations that choose providers or change them, counting for each
\* method the requests each provider was chosen for since the providers
\* last changed.
RoundRobinNext ==
    \/ \E a \in Workers, m \in RoundRobinMethods :
         RegisterMethod(a, m) /\ ResetStreak /\ RoundRobinFrame
    \/ \E a \in Workers, m \in RoundRobinMethods :
         UnregisterMethod(a, m) /\ ResetStreak /\ RoundRobinFrame
    \/ \E a \in Apps :
         UnregisterApp(a) /\ ResetStreak /\ RoundRobinFrame
    \/ \E s \in Clients, i \in Ids, m \in RoundRobinMethods, sent \in BOOLEAN :
         /\ streak[m].n < MaxStreak
         /\ HandleRequest(s, RequestMsg(i, m), sent)
         /\ streak' = IF out'.ret # None THEN StreakCounts(m, out'.ret) ELSE streak
         /\ RoundRobinFrame


InterruptFrame == UNCHANGED <<workerVars, streak, runVars, lastSent, streamVars, beatVars, wsBeatVars, pingVars, connVars, brokerVars, argsVars, execVars, poolVars, codecVars, jobVars, lockVars, msgVars, taskVars, idPoolVars, fwdVars>>

InterruptNext ==
    \/ \E a \in RoutingWorkers, m \in RoundRobinMethods :
         RegisterMethod(a, m) /\ UNCHANGED interruptVars /\ InterruptFrame
    \/ \E a \in RoutingWorkers, m \in RoundRobinMethods :
         UnregisterMethod(a, m) /\ UNCHANGED interruptVars /\ InterruptFrame
    \/ \E c \in CallIds, m \in RoundRobinMethods : Execute(c, m) /\ InterruptFrame
    \/ \E c \in CallIds : Interrupt(c) /\ InterruptFrame
    \/ \E c \in CallIds : Abandon(c) /\ InterruptFrame
    \/ \E c \in CallIds, code \in Codes : Resolve(c, code) /\ InterruptFrame

RunFrame == UNCHANGED <<workerVars, masterVars, streak, interruptVars, lastSent, streamVars, beatVars, wsBeatVars, pingVars, connVars, brokerVars, argsVars, execVars, poolVars, codecVars, jobVars, lockVars, msgVars, taskVars, idPoolVars, fwdVars>>

RunNext ==
    \/ BeginFetch /\ RunFrame
    \/ StartFailed /\ RunFrame
    \/ Started /\ RunFrame
    \/ \E k \in Cmds : ChildExits(k) /\ RunFrame
    \/ SelectExited /\ RunFrame
    \/ SelectInterrupted /\ RunFrame
    \/ TimerExpires /\ RunFrame
    \/ TermedExited /\ RunFrame
    \/ TermedTimeout /\ RunFrame
    \/ KilledExited /\ RunFrame
    \/ NextCommand /\ RunFrame
    \/ BuildResolves /\ RunFrame
    \/ RunInterrupted /\ RunFrame

\* Builder.Build of enslave/builder.go: the steps of the handler with what
\* each of them sends last.  There is no noop request in this handler.
EnslaveFrame == UNCHANGED <<masterVars, streak, interruptVars, runVars, streamVars, beatVars, wsBeatVars, pingVars, connVars, brokerVars, argsVars, execVars, poolVars, codecVars, jobVars, lockVars, msgVars, taskVars, idPoolVars, fwdVars>>

EnslaveNext ==
    \E j \in Jobs :
        \/ BuildRejected(j) /\ retCode'[j] # 0 /\ Sends(j, "reply") /\ EnslaveFrame
        \/ BuildAccepted(j) /\ Sends(j, "frame") /\ EnslaveFrame
        \/ AcquireWorkspace(j) /\ Sends(j, "frame") /\ EnslaveFrame
        \/ ParkWorkspace(j) /\ UNCHANGED lastSent /\ EnslaveFrame
        \/ TimeoutWorkspace(j) /\ Sends(j, "frame") /\ EnslaveFrame
        \/ InterruptedWaitingWorkspace(j) /\ Sends(j, "reply") /\ EnslaveFrame
        \/ AcquireExecutor(j) /\ Sends(j, "frame") /\ EnslaveFrame
        \/ ParkExecutor(j) /\ UNCHANGED lastSent /\ EnslaveFrame
        \/ TimeoutExecutor(j) /\ Sends(j, "frame") /\ EnslaveFrame
        \/ InterruptedWaitingExecutor(j) /\ Sends(j, "reply") /\ EnslaveFrame
        \/ FetchFailed(j) /\ Sends(j, "reply") /\ EnslaveFrame
        \/ FetchDone(j) /\ Sends(j, "frame") /\ EnslaveFrame
        \/ RunReturned(j) /\ Sends(j, "reply") /\ EnslaveFrame
        \/ ReleaseExecutor(j) /\ Sends(j, "frame") /\ EnslaveFrame
        \/ ReleaseWorkspace(j) /\ Sends(j, "frame") /\ EnslaveFrame
        \/ RequestInterrupted(j) /\ UNCHANGED lastSent /\ EnslaveFrame

StreamFrame == UNCHANGED <<workerVars, masterVars, streak, interruptVars, runVars, lastSent, beatVars, wsBeatVars, pingVars, connVars, brokerVars, argsVars, execVars, poolVars, codecVars, jobVars, lockVars, msgVars, taskVars, idPoolVars, fwdVars>>

StreamNext ==
    \/ \E c \in StreamCalls : StreamExecute(c) /\ StreamFrame
    \/ \E c \in StreamCalls, p \in Payloads : WriteStdout(c, p) /\ StreamFrame
    \/ \E c \in StreamCalls : StreamResolve(c) /\ StreamFrame
    \/ \E c \in StreamCalls : ReturnSilently(c) /\ StreamFrame
    \/ \E c \in StreamCalls : ReturnReleasing(c) /\ StreamFrame
    \/ MasterRelays /\ StreamFrame
    \/ ClientReceives /\ StreamFrame

BeatFrame ==
    UNCHANGED <<workerVars, masterVars, streak, interruptVars, runVars, lastSent, streamVars,
                wsBeatVars, pingVars, connVars, brokerVars, argsVars, execVars, poolVars, codecVars, jobVars, lockVars, msgVars, taskVars, idPoolVars, fwdVars>>

BeatNext ==
    \/ \E a \in BeatApps : BeatRegisterMethod(a) /\ BeatFrame
    \/ \E a \in BeatApps : BeatPong(a) /\ BeatFrame
    \/ \E a \in BeatApps : BeatUnregisterApp(a) /\ BeatFrame
    \/ BeatTick /\ BeatFrame

WsBeatFrame ==
    UNCHANGED <<workerVars, masterVars, streak, interruptVars, runVars, lastSent, streamVars,
                timestamps, beating, lastHeard, pingVars, connVars, brokerVars, argsVars, execVars, poolVars, codecVars, jobVars, lockVars, msgVars, taskVars, idPoolVars, fwdVars>>

WsBeatNext ==
    \/ WsTick /\ WsBeatFrame
    \/ HeartbeatPing /\ WsBeatFrame
    \/ HeartbeatPong /\ WsBeatFrame
    \/ HeartbeatExpires /\ WsBeatFrame
    \/ PongReceived /\ WsBeatFrame

PingFrame ==
    UNCHANGED <<workerVars, masterVars, streak, interruptVars, runVars, lastSent, streamVars,
                beatVars, wsBeatVars, connVars, brokerVars, argsVars, execVars, poolVars, codecVars, jobVars, lockVars, msgVars, taskVars, idPoolVars, fwdVars>>

PingNext ==
    \/ \E sd \in PingSides, type \in PingTypes : PeerSends(sd, type) /\ PingFrame
    \/ \E sd \in PingSides : Receives(sd) /\ PingFrame

ConnFrame ==
    UNCHANGED <<workerVars, masterVars, streak, interruptVars, runVars, lastSent, streamVars,
                beatVars, wsBeatVars, pingVars, brokerVars, argsVars, execVars, poolVars, codecVars, jobVars, lockVars, msgVars, taskVars, idPoolVars, fwdVars>>

ConnNext ==
    \/ \E c \in Conns, i \in Identities : HandleConnection(c, i) /\ ConnFrame
    \/ \E c \in Conns : ConnRegisters(c) /\ ConnFrame
    \/ \E c \in Conns : ConnEnds(c) /\ ConnFrame

\* The other subsystems stand still while the supervisor's goroutines step.
BrokerFrame == UNCHANGED <<workerVars, masterVars, streak, interruptVars, runVars, lastSent, streamVars, beatVars, wsBeatVars, pingVars, connVars, argsVars, execVars, poolVars, codecVars, jobVars, lockVars, msgVars, taskVars, idPoolVars, fwdVars>>

\* What the supervising goroutines, the watchers and the closing goroutine
\* do by themselves once they are scheduled.
BrokerSteps ==
    \/ \E f \in Factories : DropEndpoint(f) /\ BrokerFrame
    \/ \E f \in Factories : Instantiate(f) /\ BrokerFrame
    \/ \E f \in Factories, ok \in BOOLEAN : Listen(f, ok) /\ BrokerFrame
    \/ \E f \in Factories : ServeReturns(f) /\ BrokerFrame
    \/ \E f \in Factories : ServedCleanly(f) /\ BrokerFrame
    \/ \E f \in Factories, late \in BOOLEAN : Crashed(f, late) /\ BrokerFrame
    \/ \E f \in Factories : WatcherTerminates(f) /\ BrokerFrame
    \/ \E f \in Factories : StaleWatcherReturns(f) /\ BrokerFrame
    \/ CloseMonitor /\ BrokerFrame

BrokerNext ==
    \/ BrokerSteps
    \/ \E f \in Factories : FactoryFails(f) /\ BrokerFrame
    \/ \E f \in Factories : ServeCrashes(f) /\ BrokerFrame
    \/ \E f \in Factories : StaleWatcherTerminates(f) /\ BrokerFrame
    \/ Terminate /\ BrokerFrame

ArgsFrame == UNCHANGED <<workerVars, masterVars, streak, interruptVars, runVars, lastSent, streamVars, beatVars, wsBeatVars, pingVars, connVars, brokerVars, execVars, poolVars, codecVars, jobVars, lockVars, msgVars, taskVars, idPoolVars, fwdVars>>

ArgsNext ==
    \/ \E a \in BuildArgs \cup {Undecodable} : BuildRequested(a) /\ ArgsFrame
    \/ \E wsOk \in BOOLEAN : BuildHead(wsOk) /\ ArgsFrame
    \/ \E taken \in BOOLEAN : BuildLocks(taken) /\ ArgsFrame
    \/ \E code \in {5, 6, 7, 8, 1, 0} : BuildEnds(code) /\ ArgsFrame

ExecFrame == UNCHANGED <<workerVars, masterVars, streak, interruptVars, runVars, lastSent, streamVars, beatVars, wsBeatVars, pingVars, connVars, brokerVars, argsVars, poolVars, codecVars, jobVars, lockVars, msgVars, taskVars, idPoolVars, fwdVars>>

ExecNext ==
    \/ \E m \in ExecMethods, hd \in Handlers, ok \in BOOLEAN :
           ExecRegisterMethod(m, hd, ok) /\ ExecFrame
    \/ \E m \in ExecMethods, ok \in BOOLEAN : ExecUnregisterMethod(m, ok) /\ ExecFrame
    \/ \E m \in ExecMethods : ExecRequest(m) /\ ExecFrame

PoolFrame == UNCHANGED <<workerVars, masterVars, streak, interruptVars, runVars, lastSent, streamVars, beatVars, wsBeatVars, pingVars, connVars, brokerVars, argsVars, execVars, codecVars, jobVars, lockVars, msgVars, taskVars, idPoolVars, fwdVars>>

\* Stderr is set only together with Stdout: the two writers are registered
\* alike, and Stderr alone behaves as Stdout alone.
PoolNext ==
    \/ \E c \in PoolCalls, wantOut \in BOOLEAN, sentOk \in BOOLEAN :
           \E wantErr \in {FALSE, wantOut} :
               PoolExecute(c, wantOut, wantErr, sentOk) /\ PoolFrame
    \/ \E c \in PoolCalls : PoolReply(c) /\ PoolFrame
    \/ \E c \in PoolCalls : PoolInterrupt(c) /\ PoolFrame
    \/ \E c \in PoolCalls : PoolAbandon(c) /\ PoolFrame

CodecFrame == UNCHANGED <<workerVars, masterVars, streak, interruptVars, runVars, lastSent, streamVars, beatVars, wsBeatVars, pingVars, connVars, brokerVars, argsVars, execVars, poolVars, jobVars, lockVars, msgVars, taskVars, idPoolVars, fwdVars>>

CodecNext ==
    \/ \E frames \in CodecMessages : CodecSend(frames) /\ CodecFrame
    \/ \E eofOnEmpty \in BOOLEAN : CodecReceive(eofOnEmpty) /\ CodecFrame

JobFrame == UNCHANGED <<masterVars, streak, interruptVars, runVars, lastSent, streamVars, beatVars, wsBeatVars, pingVars, connVars, brokerVars, argsVars, execVars, poolVars, codecVars, lockVars, msgVars, taskVars, idPoolVars, fwdVars>>

\* The jobs whose handlers are followed.
BuildJobs == {1, 2}

\* The steps the goroutine of job j takes by itself once it can.
JobStep(j, k) ==
    \/ k = "acquire_ws" /\ AcquireWorkspace(j) /\ UNCHANGED jobVars /\ JobFrame
    \/ k = "interrupted_ws" /\ InterruptedWaitingWorkspace(j) /\ Resolves(j) /\ JobFrame
    \/ k = "acquire_exec" /\ AcquireExecutor(j) /\ Enters(j, "locks-held") /\ JobFrame
    \/ k = "interrupted_exec" /\ InterruptedWaitingExecutor(j) /\ Resolves(j) /\ JobFrame
    \/ k = "pull" /\ BeginPull(j) /\ JobFrame
    \/ k = "fetched" /\ FetchDone(j) /\ stage[j] = "fetching" /\ Enters(j, "running") /\ JobFrame
    \/ k = "ran" /\ RunReturned(j) /\ Resolves(j) /\ JobFrame
    \/ k = "release_exec" /\ ReleaseExecutor(j) /\ UNCHANGED jobVars /\ JobFrame
    \/ k = "release_ws" /\ ReleaseWorkspace(j) /\ UNCHANGED jobVars /\ JobFrame

JobStepKinds ==
    {"acquire_ws", "interrupted_ws", "acquire_exec", "interrupted_exec", "pull", "fetched",
     "ran", "release_exec", "release_ws"}

JobNext ==
    \/ \E j \in BuildJobs, k \in JobStepKinds : JobStep(j, k)
    \/ \E j \in BuildJobs : BuildRejected(j) /\ Resolves(j) /\ JobFrame
    \/ \E j \in BuildJobs : BuildAccepted(j) /\ Enters(j, "accepted") /\ JobFrame
    \/ \E j \in BuildJobs : ParkWorkspace(j) /\ UNCHANGED jobVars /\ JobFrame
    \/ \E j \in BuildJobs : TimeoutWorkspace(j) /\ UNCHANGED jobVars /\ JobFrame
    \/ \E j \in BuildJobs : ParkExecutor(j) /\ UNCHANGED jobVars /\ JobFrame
    \/ \E j \in BuildJobs : TimeoutExecutor(j) /\ UNCHANGED jobVars /\ JobFrame
    \/ \E j \in BuildJobs :
           /\ FetchFailed(j)
           /\ retCode'[j] = 8 <=> stage[j] = "fetching"
           /\ Resolves(j)
           /\ JobFrame
    \/ \E j \in BuildJobs : RequestInterrupted(j) /\ UNCHANGED jobVars /\ JobFrame

LockFrame == UNCHANGED <<workerVars, masterVars, streak, interruptVars, runVars, lastSent, streamVars, beatVars, wsBeatVars, pingVars, connVars, brokerVars, argsVars, execVars, poolVars, codecVars, jobVars, msgVars, taskVars, idPoolVars, fwdVars>>

LockNext ==
    \/ \E g \in Readers, op \in RoutingOps, found \in BOOLEAN : OpReceived(g, op, found) /\ LockFrame
    \/ \E g \in Readers : OpLock(g) /\ LockFrame
    \/ \E g \in Readers, connFound \in BOOLEAN : OpRoute(g, connFound) /\ LockFrame
    \/ \E g \in Readers, connFound \in BOOLEAN : OpReject(g, connFound) /\ LockFrame
    \/ \E g \in Readers, ok \in BOOLEAN : OpSendReturns(g, ok) /\ LockFrame
    \/ \E g \in Readers : OpUnlock(g) /\ LockFrame

MsgFrame == UNCHANGED <<workerVars, masterVars, streak, interruptVars, runVars, lastSent, streamVars, beatVars, wsBeatVars, pingVars, connVars, brokerVars, argsVars, execVars, poolVars, codecVars, jobVars, lockVars, taskVars, idPoolVars, fwdVars>>

MsgNext ==
    \/ \E sd \in MsgSides, m \in WireMessages : MsgReceived(sd, m) /\ MsgFrame
    \/ \E sd \in MsgSides : MsgConnCloses(sd) /\ MsgFrame

TaskFrame == UNCHANGED <<workerVars, masterVars, streak, interruptVars, runVars, lastSent, streamVars, beatVars, wsBeatVars, pingVars, connVars, brokerVars, argsVars, execVars, poolVars, codecVars, jobVars, lockVars, msgVars, idPoolVars, fwdVars>>

\* The steps a goroutine takes by itself once it can.
TaskStep(k) ==
    \/ k = "tick" /\ TickerFires /\ TaskFrame
    \/ k = "command" /\ TaskCommand /\ TaskFrame
    \/ k = "sweep_lock" /\ SweepLocks /\ TaskFrame
    \/ k = "sweep" /\ (\E timedOut \in SUBSET HbApps : SweepRuns(timedOut)) /\ TaskFrame
    \/ k = "lock" /\ (\E c \in HbCallers : HbLocks(c)) /\ TaskFrame
    \/ k = "stamps" /\ (\E c \in HbCallers : HbStamps(c)) /\ TaskFrame
    \/ k = "unregister_app" /\ (\E c \in HbCallers : HbUnregisterApp(c)) /\ TaskFrame
    \/ k = "unregister_endpoint" /\ (\E c \in HbCallers : HbUnregisterEndpoint(c)) /\ TaskFrame
    \/ k = "command_sent" /\ (\E s \in HbCallers \cup {"task"} : PtSend(s)) /\ TaskFrame
    \/ k = "stop_acked" /\ (\E c \in HbCallers : HbStopAcked(c)) /\ TaskFrame
    \/ k = "returns" /\ (\E c \in HbCallers : HbReturns(c)) /\ TaskFrame

TaskStepKinds ==
    {"tick", "command", "sweep_lock", "sweep", "lock", "stamps", "unregister_app",
     "unregister_endpoint", "command_sent", "stop_acked", "returns"}

TaskNext ==
    \/ \E k \in TaskStepKinds : TaskStep(k)
    \/ \E c \in HbCallers, op \in HbOps, a \in HbApps : HbCall(c, op, a) /\ TaskFrame

IdPoolFrame == UNCHANGED <<workerVars, masterVars, streak, interruptVars, runVars, lastSent, streamVars, beatVars, wsBeatVars, pingVars, connVars, brokerVars, argsVars, execVars, poolVars, codecVars, jobVars, lockVars, msgVars, taskVars, fwdVars>>

IdPoolNext ==
    \/ IdPoolAllocate /\ IdPoolFrame
    \/ \E id \in IdPoolIds : IdPoolRelease(id) /\ IdPoolFrame

FwdFrame == UNCHANGED <<workerVars, streak, interruptVars, runVars, lastSent, streamVars, beatVars, wsBeatVars, pingVars, connVars, brokerVars, argsVars, execVars, poolVars, codecVars, jobVars, lockVars, msgVars, taskVars, idPoolVars>>

\* A provider that holds a request and is connected answers it.
FwdAnswers(w, i) == FwdReply(w, i) /\ FwdFrame

FwdNext ==
    \/ \E w \in Workers : FwdRegister(w) /\ FwdFrame
    \/ \E i \in Ids, sent \in BOOLEAN : FwdRequest(i, sent) /\ FwdFrame
    \/ \E w \in Workers, i \in Ids : FwdAnswers(w, i)
    \/ \E w \in Workers : FwdProviderGone(w) /\ FwdFrame

\* The steps the Build goroutine of job j takes by itself once it can: the
\* send and interrupted cases of acquire, the end of the fetch and of the
\* script, and the deferred releases.
WorkerStep(j) ==
    /\ \/ AcquireWorkspace(j)
       \/ InterruptedWaitingWorkspace(j)
       \/ AcquireExecutor(j)
       \/ InterruptedWaitingExecutor(j)
       \/ FetchDone(j)
       \/ RunReturned(j)
       \/ ReleaseExecutor(j)
       \/ ReleaseWorkspace(j)
    /\ WorkerFrame

SpecWorker == Init /\ [][WorkerNext]_vars

\* Two build requests in flight at once, over every workspace and every
\* executor count of the model.
AcquireJobs == {1, 2}

AcquireNext ==
    \E j \in AcquireJobs :
        \/ BuildRejected(j) /\ WorkerFrame
        \/ BuildAccepted(j) /\ WorkerFrame
        \/ AcquireWorkspace(j) /\ WorkerFrame
        \/ ParkWorkspace(j) /\ WorkerFrame
        \/ TimeoutWorkspace(j) /\ WorkerFrame
        \/ InterruptedWaitingWorkspace(j) /\ WorkerFrame
        \/ AcquireExecutor(j) /\ WorkerFrame
        \/ ParkExecutor(j) /\ WorkerFrame
        \/ TimeoutExecutor(j) /\ WorkerFrame
        \/ InterruptedWaitingExecutor(j) /\ WorkerFrame
        \/ FetchFailed(j) /\ WorkerFrame
        \/ FetchDone(j) /\ WorkerFrame
        \/ RunReturned(j) /\ WorkerFrame
        \/ ReleaseExecutor(j) /\ WorkerFrame
        \/ ReleaseWorkspace(j) /\ WorkerFrame
        \/ RequestInterrupted(j) /\ WorkerFrame

SpecAcquire == Init /\ [][AcquireNext]_vars

\* Every Build goroutine that can take a step takes it eventually, and the
\* git commands and scripts end; interrupts and timers are left open.
SpecAcquireFair == SpecAcquire /\ \A j \in AcquireJobs : WF_vars(WorkerStep(j))

SpecMaster == Init /\ [][MasterNext]_vars

SpecRoundRobin == Init /\ [][RoundRobinNext]_vars

SpecInterrupt == Init /\ [][InterruptNext]_vars

SpecRun == Init /\ [][RunNext]_vars

SpecEnslave == Init /\ [][EnslaveNext]_vars

SpecStream == Init /\ [][StreamNext]_vars

SpecBeat == Init /\ [][BeatNext]_vars

SpecWsBeat == Init /\ [][WsBeatNext]_vars

SpecPing == Init /\ [][PingNext]_vars

SpecConn == Init /\ [][ConnNext]_vars

SpecBroker == Init /\ [][BrokerNext]_vars

\* Every goroutine that can step is scheduled eventually; crashes, factory
\* failures and Terminate are left to the environment.
SpecBrokerFair == SpecBroker /\ WF_vars(BrokerSteps)

SpecArgs == Init /\ [][ArgsNext]_vars

SpecExec == Init /\ [][ExecNext]_vars

SpecPool == Init /\ [][PoolNext]_vars

SpecCodec == Init /\ [][CodecNext]_vars

SpecLock == Init /\ [][LockNext]_vars

SpecMsg == Init /\ [][MsgNext]_vars

SpecIdPool == Init /\ [][IdPoolNext]_vars

SpecFwd == Init /\ [][FwdNext]_vars

\* A connected provider answers the requests it holds; when providers
\* come and go and when the client sends is left open.
SpecFwdFair == SpecFwd /\ \A w \in Workers, i \in Ids : WF_vars(FwdAnswers(w, i))

SpecTask == Init /\ [][TaskNext]_vars

\* Every goroutine that can take a step takes it eventually, and a
\* goroutine waiting for the mutex gets it if it is free again and again
\* (sync.Mutex hands over to starving waiters); when the wrapper's methods
\* are called is left open.
SpecTaskFair ==
    SpecTask /\ \A k \in TaskStepKinds :
        IF k \in {"lock", "sweep_lock"} THEN SF_vars(TaskStep(k)) ELSE WF_vars(TaskStep(k))

SpecJob == Init /\ [][JobNext]_vars

\* A handler goroutine that can take a step is scheduled eventually, and the
\* script and the git commands it waits for end; whether a request is
\* interrupted, and when the timers fire, is left open.
SpecJobFair == SpecJob /\ \A j \in BuildJobs, k \in JobStepKinds : WF_vars(JobStep(j, k))

PastWsLock == WaitingExecutor \cup {"fetch", "run", "rel_exec", "rel_ws"}
\* Jobs holding an executor slot.
HoldsExecutor == {"fetch", "run", "rel_exec"}

\* C1: on one worker, at most one job targeting a workspace w is past the
\* acquisition of w's lock, at every instant.
C1_AtMostOnePerWorkspace ==
    \A w \in Workspaces :
        Cardinality({j \in Jobs : jobWs[j] = w /\ pc[j] \in PastWsLock}) <= 1

\* Two requests for one workspace are in the handler at once: one holds the
\* lock and runs its script, the other waits for the lock.
C1_Witness ==
    \E j, k \in Jobs :
        /\ j # k
        /\ jobWs[j] = jobWs[k]
        /\ pc[j] = "run"
        /\ pc[k] = "park_ws"

\* C2: the jobs holding an executor slot never exceed the configured
\* parallelism, and the free slots are the parallelism minus those jobs, >= 0.
C2_ExecutorCap ==
    LET running == Cardinality({j \in Jobs : pc[j] \in HoldsExecutor})
        free == NumExecutors - running
    IN  /\ running <= NumExecutors
        /\ free >= 0
        /\ ExecQueueCapacity - execQueue = free

\* Every slot is taken and one more job, holding its workspace lock, waits.
C2_Witness ==
    /\ execQueue = NumExecutors
    /\ \E j \in Jobs : pc[j] = "park_exec"

\* C3: a finished job holds nothing: each channel holds exactly one element
\* per job between its acquisition and its release, so once no job is in
\* flight every workspace lock count is 0 and the pool is at capacity.
C3_Cleanup ==
    /\ \A c \in Chans :
         chanLen[c] = Cardinality({j \in Jobs : wsQueue[j] = c /\ pc[j] \in PastWsLock})
    /\ execQueue = Cardinality({j \in Jobs : pc[j] \in HoldsExecutor})
    /\ (\A j \in Jobs : pc[j] \in {"idle", "done"}) =>
         /\ \A c \in Chans : chanLen[c] = 0
         /\ execQueue = 0

\* All jobs are over: one went through fetch or script, one was interrupted
\* while it waited for a lock it had asked for.
C3_Witness ==
    /\ \A j \in Jobs : pc[j] = "done"
    /\ \E j \in Jobs : retCode[j] \in {0, 1, 8}
    /\ \E j \in Jobs : retCode[j] = 5 /\ wsQueue[j] # None

(***************************************************************************)
(* Routing exchange                                                        *)
(***************************************************************************)
Ring(m) == providers[m].providers
InRing(a, m) == \E i \in 1..Len(Ring(m)) : Ring(m)[i] = a
Ceil(n, k) == (n + k - 1) \div k

\* C4: with k providers of a method and n requests for it in a row, no
\* registration or unregistration in between, every provider is chosen for
\* floor(n/k) or ceil(n/k) of them, and nobody else for any.
C4_RoundRobin ==
    \A m \in Methods :
        providers[m].present /\ streak[m].n > 0 =>
            LET k == Len(Ring(m))
                n == streak[m].n
            IN  \A a \in Apps :
                    IF InRing(a, m)
                    THEN streak[m].count[a] \in {n \div k, Ceil(n, k)}
                    ELSE streak[m].count[a] = 0

C4_Witness ==
    \E m \in Methods :
        /\ Len(Ring(m)) = 3
        /\ streak[m].n = 4
        /\ \E a \in Workers : streak[m].count[a] = 2

\* C5: a REQUEST with id i for a method without provider is answered to its
\* sender by a REPLY whose request id frame is i, with code 254 and the text
\* "No method available".
C5_NoMethodReply ==
    (out.op[1] = "HandleRequest" /\ out.ret = None) =>
        /\ out.to = out.op[2]
        /\ Frame(out.msg, 2) = <<MessageTypeReply>>
        /\ Frame(out.msg, 3) = Frame(out.op[3], 3)
        /\ Frame(out.msg, 4) = <<254>>
        /\ Frame(out.msg, 5) = "No method available"

\* C6: once a request of sender S with id i has been dispatched to provider
\* R, the routing table maps (S, i) to R.
C6_MappingFollowsDispatch ==
    (out.op[1] = "HandleRequest" /\ out.to \in Workers) =>
        apps[out.op[2]].requestReceivers[ReqId(Frame(out.op[3], 3))] = out.to

C8_RingsMatchMethods ==
    /\ \A m \in Methods :
        /\ \A a \in Apps : InRing(a, m) <=> (apps[a].registered /\ m \in apps[a].methods)
        /\ providers[m].present <=> Len(Ring(m)) > 0
    /\ \A a \in Apps : apps[a].registered <=> a \in appsByEndpoint
    /\ (out.op[1] = "HandleRequest" /\ out.ret # None) => apps[out.ret].registered

C8_Witness ==
    /\ out.op[1] = "UnregisterApp"
    /\ out.op[2] \in Workers
    /\ \E s \in Clients, i \in Ids : apps[s].requestReceivers[i] = out.op[2]
    /\ \E m \in Methods : providers[m].present
    /\ \E m \in Methods : ~providers[m].present

\* C9: registering a method an app already provides returns
\* already-registered and changes neither rings, cursors nor method sets;
\* no ring ever holds an app twice.
C9_RegisterIdempotent ==
    [][/\ (out'.op[1] = "RegisterMethod" /\ out'.op[3] \in apps[out'.op[2]].methods) =>
            /\ out'.ret = "ErrMethodAlreadyRegistered"
            /\ UNCHANGED <<apps, providers, appsByEndpoint>>
       /\ \A m \in Methods : \A i, k \in 1..Len(providers'[m].providers) :
            providers'[m].providers[i] = providers'[m].providers[k] => i = k
      ]_vars

C9_Witness ==
    /\ out.op[1] = "RegisterMethod"
    /\ out.ret = "ErrMethodAlreadyRegistered"
    /\ Len(Ring(out.op[3])) = 2
    /\ providers[out.op[3]].lastUsed = 1

(***************************************************************************)
(* Interrupt path                                                          *)
(***************************************************************************)
\* C10: when the client interrupts a call whose request has been dispatched
\* to a worker and not yet resolved there, the interrupted signal of that
\* request's handle is closed, once, and the signal of no other handle is.
C10_InterruptClosesSignal ==
    [][\A c \in CallIds :
          (/\ ~calls[c].interruptedFlag
           /\ calls'[c].interruptedFlag
           /\ calls[c].st = "registered"
           /\ handles[c].worker # None
           /\ ~handles[c].resolved)
          => /\ handles'[c].interrupted = 1
             /\ \A d \in CallIds \ {c} : handles'[d].interrupted = handles[d].interrupted
      ]_vars

(***************************************************************************)
(* Worker: interruption                                                    *)
(***************************************************************************)
\* C11: a job that has been waiting for the workspace lock or for an
\* executor slot (parked, or back at the select after the timer) and whose
\* interrupted signal has fired leaves the wait resolved with code 5, and goes
\* on neither to the fetch nor to the script.
C11_InterruptedWaitAbandons ==
    [][\A j \in Jobs :
          (/\ pc[j] \in {"park_ws", "rewait_ws", "park_exec", "rewait_exec"}
           /\ interrupted[j]
           /\ pc'[j] # pc[j])
          => /\ retCode'[j] = 5
             /\ pc'[j] \in {"done", "rel_ws"}
      ]_vars

(***************************************************************************)
(* Child processes                                                         *)
(***************************************************************************)
Spawned(k) == child[k] # "none"
\* The handler is back from executil.Run, or past it.
BackInHandler == runPc \in {"returned", "call", "resolved"}

\* C12: a child is sent the termination signal first and the kill signal
\* only after it, the kill signal only when the 5 s have expired with the
\* child still running, and whenever a Run that was interrupted has returned,
\* its child has been waited on.
C12_TermThenKillThenWait ==
    /\ \A k \in Cmds : signals[k] \in {<<>>, <<"term">>, <<"term", "kill">>}
    /\ \A k \in Cmds : Len(signals[k]) = 2 => timerFired
    /\ (runPc = "returned" /\ sigFired /\ Spawned(cmdIdx))
          => waiter[cmdIdx] = "done"

\* C13: whenever the handler is not inside executil.Run, every process it
\* has started has either exited and been waited on, or is running with the
\* goroutine of its Run blocked in cmd.Wait on it.
C13_NoOrphan ==
    BackInHandler =>
        \A k \in Cmds :
            Spawned(k) =>
                \/ child[k] \in Exited /\ waiter[k] = "done"
                \/ child[k] = "running" /\ waiter[k] = "waiting"
\* A Run that was interrupted has returned after the kill signal, its child
\* waited on, and Build has resolved.
C13_Witness ==
    /\ runPc = "resolved"
    /\ \E k \in Cmds : signals[k] = <<"term", "kill">> /\ waiter[k] = "done"

(***************************************************************************)
(* Worker: order of the messages of a request                              *)
(***************************************************************************)
\* C14: once the worker has sent the REPLY of a request, the REPLY stays the
\* last message it has sent for that request, through the deferred releases
\* of the executor slot and of the workspace lock as well.
C14_ReplyIsLast ==
    \A j \in Jobs : retCode[j] # NoCode => lastSent[j] = "reply"

(***************************************************************************)
(* Output streams                                                          *)
(***************************************************************************)
\* No message of call c is on its way.
NothingInFlight(c) ==
    /\ \A i \in 1..Len(toMaster) : toMaster[i].tag # c
    /\ \A i \in 1..Len(toClient) : toClient[i].tag # c

\* C15: what the client's sink of a stream has received is always the
\* beginning of what was written to the stream on the worker, and all of it
\* once the handler has returned and nothing of the call is on its way.
C15_StreamIntact ==
    \A c \in StreamCalls :
        /\ Len(delivered[c]) <= Len(written[c])
        /\ delivered[c] = SubSeq(written[c], 1, Len(delivered[c]))
        /\ (handler[c] = "returned" /\ NothingInFlight(c))
              => delivered[c] = written[c]

(***************************************************************************)
(* Stale interrupts                                                        *)
(***************************************************************************)
\* C16: when the client interrupts a call and the INTERRUPT reaches a worker
\* that does not know the request (any more), nothing changes on the worker:
\* no request table, no handle, and every transport loop goes on reading.
C16_StaleInterruptDropped ==
    [][\A c \in CallIds :
          (/\ ~calls[c].interruptedFlag
           /\ calls'[c].interruptedFlag
           /\ out'.to \in Workers
           /\ loopRunning[out'.to]
           /\ incomingRequests[out'.to][calls[c].id] = None)
          => /\ incomingRequests' = incomingRequests
             /\ handles' = handles
             /\ loopRunning' = loopRunning
      ]_vars

(***************************************************************************)
(* Exchange heartbeat                                                      *)
(***************************************************************************)
\* C17: an app that is registered with the exchange has been heard from
\* within the last timeout plus one period: a silent app is unregistered by
\* then.
C17_SilentAppUnregistered ==
    \A a \in beating : now - lastHeard[a] <= HeartbeatTimeout + HeartbeatPeriod

(***************************************************************************)
(* Connection heartbeat                                                    *)
(***************************************************************************)
\* C18 as stated: the heartbeat closes the connection when 4 periods have
\* passed since the last PING.
C18_ClosedFourPeriodsAfterPing ==
    ~connOpen => closedAt = lastPing + 4 * HeartbeatPeriod

\* C18, amended: the deadline is 4 periods after the connection was accepted
\* until the first PONG, and 3 periods after the last PONG from then on; the
\* PINGs do not move it.  The heartbeat closes the connection at the deadline
\* and not before, and no connection stays open past its deadline.
C18_Deadline ==
    LET deadline == IF lastReset = Never
                    THEN 4 * HeartbeatPeriod
                    ELSE lastReset + 3 * HeartbeatPeriod
    IN  /\ connOpen => now <= deadline
        /\ ~connOpen => closedAt = deadline
\* A peer that answered and then fell silent has been closed.
C18_Witness ==
    /\ ~connOpen
    /\ lastReset # Never
    /\ lastPing > lastReset

(***************************************************************************)
(* PING and PONG                                                           *)
(***************************************************************************)
\* C19: each end of a connection has sent one PONG for every PING it has
\* read, by the time it reads its next message.
C19_PingAnswered ==
    \A sd \in PingSides : pongsSent[sd] = pingsRead[sd]

(***************************************************************************)
(* Connections                                                             *)
(***************************************************************************)
\* C20: a connection is in the message loop only with an identity and as the
\* connection registered for it, and a connection in the loop that holds its
\* identity and has registered a method is still routable.
C20_CollisionRejected ==
    \A c \in Conns :
        connState[c] = "loop" =>
            /\ identityOf[c] # ""
            /\ connections[identityOf[c]] = c
            /\ c \in registered => identityOf[c] \in routable

(***************************************************************************)
(* Endpoint supervisor                                                     *)
(***************************************************************************)
\* C21: a supervising task ends only after a ListenAndServe that returned
\* nil, or with its error counter at the threshold and exactly one dropped
\* report sent; after any other crash it goes on to a new instance.
C21_RestartUntilThreshold ==
    [][\A f \in Factories :
          (taskPc[f] # "exited" /\ taskPc'[f] = "exited")
              => \/ taskPc[f] = "returned" /\ ~lasErr[f]
                 \/ errCounter[f] = NumAllowedConsecutiveErrors /\ dropped'[f] = 1]_vars

\* C22: once Terminate has closed termCh, every supervising task exits and
\* termAckCh is closed eventually.
C22_TerminateEndsTasks == termCh ~> termAckCh

\* C23: monitorCh is closed at most once, only when every supervising task
\* has exited, and no report is sent on it afterwards.
C23_MonitorClosedLast ==
    /\ monitorCloses <= 1
    /\ monitorCloses > 0 => AllTasksDone
    /\ ~sentAfterClose

C23_Witness ==
    /\ monitorCloses = 1
    /\ \E f \in Factories : dropped[f] = 1
    /\ \E f \in Factories : dropped[f] = 0 /\ taskPc[f] = "exited"

\* C24: the broker calls ListenAndServe at most once and Close at most once
\* on every instance it creates.
C24_OnceEach == \A f \in Factories : lasCalls[f] <= 1 /\ closeCalls[f] <= 1

(***************************************************************************)
(* Build arguments                                                         *)
(***************************************************************************)
\* C25: a request whose arguments cannot be decoded is resolved with 2, one
\* whose decoded arguments fail validation is resolved with 3, and for
\* neither a workspace is created or locked.
C25_BadArgsRejected ==
    /\ (buildPc = "resolved" /\ ~buildArgs.Decoded) => resolvedWith = 2
    /\ (buildPc = "resolved" /\ buildArgs.Decoded /\ Validate(buildArgs) # "")
           => resolvedWith = 3
    /\ (buildPc # "idle" /\ (~buildArgs.Decoded \/ Validate(buildArgs) # ""))
           => ~wsCreated /\ ~wsLocked

(***************************************************************************)
(* Worker RPC service                                                      *)
(***************************************************************************)
\* C26: a RegisterMethod call for a method that is already registered
\* returns already-registered and leaves the installed handlers and the
\* exported methods as they were.
C26_DuplicateRegistrationNoEffect ==
    [][(lastCall'.op = "register" /\ methodHandlers[lastCall'.method] # None
          /\ lastCall' # lastCall)
           => /\ lastCall'.err = "already registered"
              /\ methodHandlers' = methodHandlers
              /\ exported' = exported]_vars

(***************************************************************************)
(* Client dispatcher                                                       *)
(***************************************************************************)
\* A call that went through Execute and whose resolvedCh is still open.
Unresolved(c) == rcalls[c].dispatchedFlag /\ ~rcalls[c].resolved

\* C27: while the client runs, no two unresolved calls hold the same
\* request id and no two output streams of unresolved calls hold the same
\* stream tag.
C27_IdsAndTagsUnique ==
    \A c, d \in PoolCalls :
        (~dispPanicked /\ c # d /\ Unresolved(c) /\ Unresolved(d))
            => /\ rcalls[c].id # rcalls[d].id
               /\ (rcalls[c].stdoutTag \cup rcalls[c].stderrTag)
                     \cap (rcalls[d].stdoutTag \cup rcalls[d].stderrTag) = {}

(***************************************************************************)
(* Frames codec                                                            *)
(***************************************************************************)
\* C28: unmarshalling a marshalled message succeeds and yields the frames
\* that were marshalled, in the same number, order and contents.
C28_RoundTrip ==
    codecPc = "received" => received.err = "" /\ received.frames = sentFrames

(***************************************************************************)
(* Job stages                                                              *)
(***************************************************************************)
StageRank(s) ==
    CASE s = "idle" -> 0
      [] s = "accepted" -> 1
      [] s = "locks-held" -> 2
      [] s = "fetching" -> 3
      [] s = "running" -> 4
      [] s = "resolved" -> 5

\* C29: a job moves through accepted, locks-held, fetching, running in that
\* order, from any stage possibly straight to resolved; its request gets
\* one REPLY exactly when it is resolved and never a second one; and every
\* job that was accepted is resolved eventually.
C29_StagesThenOneReply ==
    /\ [][\A j \in BuildJobs :
            \/ stage'[j] = stage[j]
            \/ StageRank(stage'[j]) = StageRank(stage[j]) + 1
            \/ stage[j] # "resolved" /\ stage'[j] = "resolved"]_vars
    /\ [](\A j \in BuildJobs :
            /\ replyCount[j] = IF stage[j] = "resolved" THEN 1 ELSE 0
            /\ pc[j] = "done" => stage[j] = "resolved")
    /\ \A j \in BuildJobs : (stage[j] = "accepted") ~> (stage[j] = "resolved")

C29_Witness ==
    /\ stage[1] = "resolved" /\ retCode[1] = 0 /\ pc[1] = "done"
    /\ stage[2] = "resolved" /\ retCode[2] = 5 /\ pc[2] = "done"
    /\ replyCount = [j \in Jobs |-> IF j \in BuildJobs THEN 1 ELSE 0]

(***************************************************************************)
(* Routing mutex                                                           *)
(***************************************************************************)
\* C30: while one of the routing operations (handle_request,
\* handle_interrupt, handle_progress, handle_stream_frame, handle_reply) is
\* inside a write of a message to a connection, it does not hold the
\* mutex of the routing table.
C30_NoWriteUnderMutex ==
    \A g \in Readers :
        opKind[g] \in RoutingOps /\ opPc[g] \in {"send", "send_reject"} => mu # g

(***************************************************************************)
(* Malformed messages                                                      *)
(***************************************************************************)
\* C31: when a side receives a message with too few frames, a wrong header,
\* an invalid type frame, or frames that do not fit the declared type, the
\* connection is closed by that step and nothing of the message is handed
\* on.
C31_MalformedClosesConnection ==
    [][\A sd \in MsgSides :
          (/\ msgSeen'[sd] = msgSeen[sd] + 1
           /\ \/ ~HeaderChecksPass(msgLast'.msg)
              \/ /\ ~ShapeChecksPass(sd, msgLast'.msg)
                 /\ ~(sd = "transport" /\ msgLast'.msg.type = MessageTypePong))
          => /\ msgConn'[sd] = "closed"
             /\ msgDispatched'[sd] = msgDispatched[sd]]_vars

(***************************************************************************)
(* Periodic task of the exchange heartbeat                                 *)
(***************************************************************************)
\* C32: once the ticker of the sweep has been stopped because no app was
\* left, an app that registers gets the sweep running again: from a state
\* with a stopped ticker and a non-empty table the sweep runs eventually,
\* unless the table becomes empty again or the endpoint is unregistered.
C32_SweepResumes ==
    (ptPc = "select" /\ ptTicker = "nil" /\ hbStamps # {})
        ~> (ptPc = "sweep" \/ hbStamps = {} \/ ptPc = "returned")

\* C40: whoever holds the mutex of the wrapper, the sweep or one of
\* RegisterMethod, UnregisterApp, UnregisterEndpoint and Pong, releases it
\* eventually (a call that panics on the nil task set aside).
C40_MutexReleased ==
    (hbMu # "free") ~> (hbMu = "free" \/ \E c \in HbCallers : hbPc[c] = "panicked")

(***************************************************************************)
(* RemoteCall life cycle                                                   *)
(***************************************************************************)
\* C33: when Execute or GoExecute is called on a call that was interrupted
\* before, the request is not sent, the call is resolved, and the
\* goroutine that called Execute gets out of executeRemoteCall.
C33_InterruptedBeforeExecute ==
    [][\A c \in PoolCalls :
          (/\ rcalls[c].interruptedFlag
           /\ ~rcalls[c].resolved
           /\ ~rcalls[c].dispatchedFlag
           /\ rcalls'[c].dispatchedFlag)
          => /\ ~rcalls'[c].awaited
             /\ rcalls'[c].resolved
             /\ rcalls'[c].executing = "returned"]_vars

\* C34: the reply to the request of a call that was abandoned in the
\* meantime (its resolvedCh is closed while its reply is still to come)
\* resolves no call.
C34_LateReplyDropped ==
    [][\A c \in PoolCalls :
          (/\ rcalls[c].awaited
           /\ rcalls[c].resolved
           /\ ~rcalls'[c].awaited)
          => \A d \in PoolCalls : rcalls'[d].resolved = rcalls[d].resolved]_vars

\* C38: the resolvedCh of a call is never closed a second time.
C38_ResolvedOnce ==
    closedTwice = {}

(***************************************************************************)
(* Identifier pool                                                         *)
(***************************************************************************)
\* C35: allocate returns an id that was free when it was called, whenever
\* there was one, and panics only when none was free.
C35_AllocateFindsFreeId ==
    /\ ipResult = Depleted => ipFreeBefore = {}
    /\ ipResult \in IdPoolIds => ipResult \in ipFreeBefore

(***************************************************************************)
(* Outbound requests of the routing table                                  *)
(***************************************************************************)
\* C36: a REQUEST that the master answers itself, with code 254 or with
\* code 255 after a failed dispatch, leaves the sender's entry for its id
\* as it was: an id that was free before such a request is free after it.
C36_RejectedLeavesNoEntry ==
    [][(/\ out'.op[1] = "HandleRequest"
        /\ out'.to = out'.op[2])
       => LET s == out'.op[2]
              i == ReqId(Frame(out'.op[3], 3))
          IN  apps'[s].requestReceivers[i] = apps[s].requestReceivers[i]]_vars

(***************************************************************************)
(* Forwarded requests                                                      *)
(***************************************************************************)
\* C37: a request that the master dispatched to a provider gets one REPLY
\* to its requester eventually, also when the provider goes away before it
\* has replied; and never more than one.
C37_ForwardedRequestReplied ==
    /\ [](\A i \in Ids : fwdReplies[i] <= 1)
    /\ \A i \in Ids : (fwdTo[i] # None) ~> (fwdReplies[i] = 1)

(***************************************************************************)
(* Two-level acquisition                                                   *)
(***************************************************************************)
\* C39: a job that waits for its workspace or for an executor and is not
\* interrupted gets to hold both, provided the fetches and scripts of the
\* jobs that hold them end.
C39_WaitingJobAcquiresBoth ==
    \A j \in Jobs :
        (pc[j] \in WaitingWorkspace \cup WaitingExecutor)
            ~> (pc[j] = "fetch" \/ interrupted[j])

C39_Witness ==
    /\ pc[1] = "run"
    /\ pc[2] = "park_ws"
    /\ jobWs[1] = jobWs[2]
    /\ ~interrupted[2]

====
